---- MODULE Spec2Model ----
(***************************************************************************)
(* Model of the paginated retrieval engine of the Falcon vulnerability     *)
(* helper: FalconClient.query_vulnerabilities (the pagination loop) and    *)
(* FalconClient._query_with_retry (the retry policy with exponential       *)
(* backoff), src/helper/src/services/falcon_client.py; and of the progress *)
(* reporter, ProgressIndicator, src/helper/src/services/progress.py, with  *)
(* its background thread and the thread that calls start, stop and update. *)
(***************************************************************************)
EXTENDS Integers, Sequences, FiniteSets, TLC

VARIABLES
    pc,                 \* position of the primary thread: "call", "sleep", "returned", "exited"
    progress_callback,  \* whether the caller passed a progress callback
    all_records,        \* query_vulnerabilities: the accumulator
    offset,             \* query_vulnerabilities: the offset cursor
    page_num,           \* query_vulnerabilities: the page number
    total_records,      \* query_vulnerabilities: the total read from the last page
    retries,            \* _query_with_retry: retries used for the current page
    delay,              \* _query_with_retry: the delay of the sleep in progress
    exit_code,          \* the code of the SystemExit that ended the call, or None
    result,             \* the list query_vulnerabilities returned, or None
    attempts,           \* history: client calls made for the current page
    sleeps,             \* history: delays slept for the current page, in order
    failures,           \* history: kinds of the retryable failures of the current page
    last,               \* history: outcome of the most recent client call
    last_request,       \* history: arguments of the most recent client call
    fetched,            \* history: offsets of the pages fetched with status 200
    pages,              \* history: [total, kind] of each page fetched with status 200
    progress,           \* history: the calls made to the progress callback
    current_page,       \* ProgressIndicator.current_page
    total_pages,        \* ProgressIndicator.total_pages: <<>> for None, <<n>> for n
    record_count,       \* ProgressIndicator.record_count
    _started,           \* ProgressIndicator._started
    _stop_event,        \* ProgressIndicator._stop_event: whether the flag is set
    _thread,            \* ProgressIndicator._thread: index in threads, 0 for None
    _last_update_time,  \* ProgressIndicator._last_update_time
    threads,            \* the background threads created so far, each with its position
    main_pc,            \* position of the thread that calls start, stop and update
    args,               \* update: its arguments (page_num, total_pages, record_count)
    join_deadline,      \* stop: the time at which self._thread.join(timeout=1.0) gives up
    now,                \* the clock, in seconds since the indicator was built
    last_line,          \* history: the last line printed to stderr since the last start
    printed,            \* history: the number of lines printed since the last start
    passed,             \* history: the argument triples passed to update so far
    started_time,       \* history: the time of the last start() that created a thread
    last_call,          \* history: the last method called, and whether it returned at once
    given,              \* the arguments FilterCriteria(...) is called with
    raised,             \* the exception the FilterCriteria constructor raised, or None
    criteria,           \* the FilterCriteria object, NoCriteria while there is none
    today,              \* datetime.now(timezone.utc) of _build_fql_filter, in days
    fql,                \* _build_fql_filter: what criteria.to_fql() returned, <<>> before the call
    fql_filter,         \* query_vulnerabilities: the filter built before the loop
    sent_filter,        \* history: the filter passed to the most recent client call
    element             \* history: the element the loop over resources handled last

\* the variables of the filter (FilterCriteria and the fragment built from it)
filter_vars == <<given, raised, criteria, today, fql, fql_filter, sent_filter, element>>

\* the variables of the retrieval (FalconClient)
loop_vars == <<pc, progress_callback, all_records, offset, page_num, total_records,
               retries, delay, exit_code, result, attempts, sleeps, failures, last,
               last_request, fetched, pages, progress>>
client_vars == <<loop_vars, filter_vars>>

\* the variables of the progress reporter (ProgressIndicator) and its threads
indicator_vars == <<current_page, total_pages, record_count, _started, _stop_event,
                    _thread, _last_update_time, threads, main_pc, args,
                    join_deadline, now, last_line, printed, passed, started_time,
                    last_call>>

vars == <<client_vars, indicator_vars>>

-----------------------------------------------------------------------------
(* Bounds of the model *)

\* the largest number of pages the remote service makes one retrieval fetch
MaxPages == 3
\* the number of elements of a short page
ShortLen == 3
\* the largest number of background threads one indicator creates
MaxThreads == 2
\* the last second the clock reaches
MaxTime == 11
\* the number of distinct argument triples update is called with
MaxUpdates == 2
\* the largest min_days_open of a FilterCriteria
MaxAge == 2
\* the largest number of severities a FilterCriteria lists
MaxSeverities == 2
\* the number of elements the loop over resources is followed through
MaxElements == 1

-----------------------------------------------------------------------------
(* Program constants *)

\* ExitCode (models/enums.py)
SUCCESS == 0
AUTH_ERROR == 1
NETWORK_ERROR == 2
INVALID_ARGS == 3
API_ERROR == 4
EXPORT_ERROR == 5

\* query_vulnerabilities: limit = 500
limit == 500
\* _query_with_retry: max_retries = 5, base_delay = 1.0
max_retries == 5
base_delay == 1

\* ProgressIndicator.__init__: delay_seconds = 10.0
delay_seconds == 10
\* ProgressIndicator._run: self._stop_event.wait(2.0)
cadence == 2
\* ProgressIndicator._print_progress: current_time - self._last_update_time < 1.0
throttle == 1
\* ProgressIndicator.stop: self._thread.join(timeout=1.0)
join_timeout == 1

\* Python's None
None == "None"

\* dict.get(key, default), a dict being a function on its keys
Get(dict, key, default) == IF key \in DOMAIN dict THEN dict[key] ELSE default

-----------------------------------------------------------------------------
(* Strings as sequences of characters: str.lower() and the `in` test *)

UpperCase == <<"A", "B", "C", "D", "E", "F", "G", "H", "I", "J", "K", "L", "M",
               "N", "O", "P", "Q", "R", "S", "T", "U", "V", "W", "X", "Y", "Z">>
LowerCase == <<"a", "b", "c", "d", "e", "f", "g", "h", "i", "j", "k", "l", "m",
               "n", "o", "p", "q", "r", "s", "t", "u", "v", "w", "x", "y", "z">>

\* str.lower(), character by character
lower(s) ==
    [i \in DOMAIN s |->
        IF \E k \in DOMAIN UpperCase : UpperCase[k] = s[i]
        THEN LowerCase[CHOOSE k \in DOMAIN UpperCase : UpperCase[k] = s[i]]
        ELSE s[i]]

\* sub in s
Contains(sub, s) ==
    \E i \in 1..(Len(s) - Len(sub) + 1) : SubSeq(s, i, i + Len(sub) - 1) = sub

timeout_word == <<"t", "i", "m", "e", "o", "u", "t">>
connection_word == <<"c", "o", "n", "n", "e", "c", "t", "i", "o", "n">>

\* the same test without .lower(): a capital letter hides the word
IsNetworkErrorCaseSensitive(message) ==
    \/ Contains(timeout_word, message)
    \/ Contains(connection_word, message)

\* "timeout" in str(e).lower() or "connection" in str(e).lower()
IsNetworkError(message) ==
    \/ Contains(timeout_word, lower(message))
    \/ Contains(connection_word, lower(message))

-----------------------------------------------------------------------------
(* What the remote service (the falconpy client) can answer *)

\* the status codes a response can carry
StatusCodes == {200, 401, 429, 502, 503, 504, 400, 403, 500}

\* the responses of queryVulnerabilitiesCombined that are not a success: a
\* dict with a status_code, or one without
ErrorResponses ==
    {[status_code |-> s] : s \in StatusCodes \ {200}} \cup {[body |-> <<>>]}

\* the messages of the exceptions the client call can raise
ExceptionMessages ==
    { <<"R", "e", "a", "d", " ", "T", "i", "m", "e", "o", "u", "t">>,
      <<"C", "o", "n", "n", "e", "c", "t", "i", "o", "n", " ", "r", "e", "s", "e", "t">>,
      <<"I", "n", "v", "a", "l", "i", "d", " ", "U", "R", "L">>,
      <<"b", "a", "d", " ", "J", "S", "O", "N">> }

\* the messages the except clause takes for a timeout or a connection failure
RetryableMessages == {message \in ExceptionMessages : IsNetworkError(message)}

\* the totals a page can report in body.meta.pagination.total: a multiple of
\* the page size, or a few elements more than none or than one page
Totals ==
    {k * limit : k \in 0..MaxPages} \cup {ShortLen, limit + ShortLen}

\* the resources lists a page can carry, by kind
PageKinds == {"empty", "short", "full"}
SmallKinds == {"empty", "short"}

\* body.resources of a page of the given kind fetched at offset `o`: elements
\* are numbered from the offset; the second element of a short page is one
\* that _parse_resource raises on
Resources(kind, o) ==
    CASE kind = "empty" -> <<>>
      [] kind = "short" -> [i \in 1..ShortLen |-> [id |-> o + i, malformed |-> (i = 2)]]
      [] kind = "full"  -> [i \in 1..limit |-> [id |-> o + i, malformed |-> FALSE]]

\* body.meta.pagination of a page: with a total, or without one
Pagination(has_total, total) == IF has_total THEN [total |-> total] ELSE <<>>

\* a response with status 200
SuccessResponse(kind, o, has_total, total) ==
    [status_code |-> 200,
     body |-> [resources |-> Resources(kind, o),
               meta |-> [pagination |-> Pagination(has_total, total)]]]

-----------------------------------------------------------------------------
(* FalconClient._parse_resource, as far as the pagination loop sees it *)

\* whether _parse_resource raises on the element (its "cve", "apps" or "host"
\* is no dict, say), which the loop answers with a warning and `continue`
ParseRaises(resource) == resource.malformed

\* the record _parse_resource builds from an element it accepts; the loop
\* only appends it, so the record is kept here by its device_id alone
\* (device_id = resource.get("id", "UNKNOWN"))
_parse_resource(resource) == [device_id |-> resource.id]

\* a loop without the try/except: the first element that raises ends the
\* page, and the elements after it are lost
ParsePageAbort(resources) ==
    LET bad   == {i \in DOMAIN resources : ParseRaises(resources[i])}
        first == IF bad = {} THEN Len(resources) + 1
                 ELSE CHOOSE i \in bad : \A j \in bad : i <= j
    IN  [i \in 1..(first - 1) |-> _parse_resource(resources[i])]

\* a loop that puts each record in front of those of its page: the page
\* comes out in reverse order
ParsePageReversed(resources) ==
    LET kept == SelectSeq(resources, LAMBDA r : ~ParseRaises(r))
    IN  [i \in DOMAIN kept |-> _parse_resource(kept[Len(kept) + 1 - i])]

\* the loop over resources of query_vulnerabilities: the records of the
\* elements that parse, in order; an element that raises is skipped
ParsePage(resources) ==
    LET kept == SelectSeq(resources, LAMBDA r : ~ParseRaises(r))
    IN  [i \in DOMAIN kept |-> _parse_resource(kept[i])]

-----------------------------------------------------------------------------
(* FilterCriteria (models/filter_criteria.py) and the filter built from it.  *)
(* A string is the sequence of its lexemes here, and an Optional value is    *)
(* <<>> for None and <<v>> for v.                                            *)

\* the decimal digits, by value
Digit == <<"0", "1", "2", "3", "4", "5", "6", "7", "8", "9">>

\* str(n) of a natural number, as the sequence of its decimal digits
RECURSIVE str(_)
str(n) == IF n < 10 THEN <<Digit[n + 1]>> ELSE str(n \div 10) \o <<Digit[(n % 10) + 1]>>

\* the members of the enums, by their values
Severity == {"CRITICAL", "HIGH", "MEDIUM"}
DeviceType == {"CLIENT", "SERVER", "BOTH"}

\* the severities lists a caller passes: up to MaxSeverities members, none twice
SeverityLists ==
    {l \in UNION {[1..n -> Severity] : n \in 0..MaxSeverities} :
        \A i, j \in DOMAIN l : i # j => l[i] # l[j]}

\* the values of ad_domain and of hostname: None, the empty string, a name
Domains == {<<>>, << <<>> >>, << <<"CORP.LOCAL">> >>}
Hostnames == {<<>>, << <<>> >>, << <<"web01">> >>}

\* the arguments FilterCriteria(...) can be called with, good and bad
CriteriaArgs ==
    [device_type : DeviceType, severities : SeverityLists,
     min_days_open : (-1)..MaxAge, ad_domain : Domains, hostname : Hostnames]

\* the dates datetime.now() can give, in days; none before day MaxAge
Dates == (MaxAge + 1)..(MaxAge + 2)

\* a validation that forgets the age: a negative min_days_open is accepted
PostInitRaisesOnEmptyOnly(a) == a.severities = <<>>

\* FilterCriteria.__post_init__: whether it raises ValueError on the arguments
PostInitRaises(a) == a.severities = <<>> \/ a.min_days_open < 0

\* sep.join(list), for a list of strings
RECURSIVE join(_, _)
join(sep, list) ==
    IF list = <<>> THEN <<>>
    ELSE IF Len(list) = 1 THEN list[1]
    ELSE list[1] \o sep \o join(sep, Tail(list))

\* `if self.ad_domain`, `if self.hostname`: neither None nor the empty string
Truthy(opt) == IF opt = <<>> THEN FALSE ELSE opt[1] # <<>>

\* the filters to_fql appends, each a list of no clause or of one
DeviceFilters(c) ==
    IF c.device_type = "CLIENT" THEN << <<"platform_name", ":*", "'", "Workstation", "'">> >>
    ELSE IF c.device_type = "SERVER" THEN << <<"platform_name", ":*", "'", "Server", "'">> >>
    ELSE <<>>
SeverityFilters(c) ==
    IF c.severities # <<>>
    THEN LET severity_list == [i \in DOMAIN c.severities |-> <<"'", c.severities[i], "'">>]
         IN  << <<"cve.severity", ":", "[">> \o join(<<",">>, severity_list) \o <<"]">> >>
    ELSE <<>>
DomainFilters(c) ==
    IF Truthy(c.ad_domain)
    THEN << <<"host.ad_domain", ":", "'">> \o c.ad_domain[1] \o <<"'">> >>
    ELSE <<>>
HostnameFilters(c) ==
    IF Truthy(c.hostname)
    THEN << <<"host.hostname", ":", "'">> \o c.hostname[1] \o <<"'">> >>
    ELSE <<>>

\* a to_fql that appends the severity filter before the device type filter
to_fql_severity_first(c) ==
    join(<<"+">>, SeverityFilters(c) \o DeviceFilters(c) \o DomainFilters(c) \o HostnameFilters(c))

\* a to_fql that appends a platform filter for BOTH too (Workstation)
to_fql_both_filtered(c) ==
    join(<<"+">>,
         (IF c.device_type = "BOTH"
          THEN << <<"platform_name", ":*", "'", "Workstation", "'">> >>
          ELSE DeviceFilters(c))
         \o SeverityFilters(c) \o DomainFilters(c) \o HostnameFilters(c))

\* FilterCriteria.to_fql: "+".join(filters) if filters else ""
to_fql(c) ==
    LET filters == DeviceFilters(c) \o SeverityFilters(c) \o DomainFilters(c)
                   \o HostnameFilters(c)
    IN  IF filters # <<>> THEN join(<<"+">>, filters) ELSE <<>>

\* strftime of the cutoff date: the date is kept in days, and printed as the
\* digits of the day
timestamp_str(cutoff_date) == str(cutoff_date)

\* a _build_fql_filter that puts the days filter in front of the fragment
BuildFqlFilterDaysFirst(c, t) ==
    LET days_filter == <<"created_timestamp", ":<", "'">>
                       \o timestamp_str(t - c.min_days_open) \o <<"'">>
    IN  IF c.min_days_open > 0
        THEN IF to_fql(c) # <<>> THEN days_filter \o <<"+">> \o to_fql(c) ELSE days_filter
        ELSE to_fql(c)

\* FalconClient._build_fql_filter(criteria), called when now() is day t
_build_fql_filter(c, t) ==
    LET days_filter == <<"created_timestamp", ":<", "'">>
                       \o timestamp_str(t - c.min_days_open) \o <<"'">>
    IN  IF c.min_days_open > 0
        THEN IF to_fql(c) # <<>> THEN to_fql(c) \o <<"+">> \o days_filter ELSE days_filter
        ELSE to_fql(c)

\* the criteria of the retrievals whose filter is not the subject
DefaultCriteria ==
    [device_type |-> "BOTH", severities |-> <<"CRITICAL">>, min_days_open |-> 0,
     ad_domain |-> <<>>, hostname |-> <<>>]

\* no element handled yet
NoElement == [resource |-> <<>>, raised |-> FALSE, index |-> 0]

-----------------------------------------------------------------------------
(* Init: query_vulnerabilities has built the filter and set up its loop *)

NoOutcome == [kind |-> "none", status_code |-> 0, message |-> <<>>]

\* no line printed yet
NoLine == [page |-> <<>>, total |-> <<>>, records |-> <<>>, thread |-> 0, since |-> 0]

\* ProgressIndicator.__init__: the fields as built, no thread, and the
\* histories empty; the clock counts from here
IndicatorBuilt ==
    /\ current_page = 0
    /\ total_pages = <<>>
    /\ record_count = 0
    /\ _started = FALSE
    /\ _stop_event = FALSE
    /\ _thread = 0
    /\ _last_update_time = 0
    /\ threads = <<>>
    /\ main_pc = "idle"
    /\ args = <<0, 0, 0>>
    /\ join_deadline = 0
    /\ now = 0
    /\ last_line = NoLine
    /\ printed = 0
    /\ passed = {}
    /\ started_time = 0
    /\ last_call = "none"

\* query_vulnerabilities: the accumulator, the cursor and the page number as
\* set up before the loop, and the histories empty
LoopSetUp ==
    /\ progress_callback \in BOOLEAN
    /\ all_records = <<>>
    /\ offset = 0
    /\ page_num = 1
    /\ total_records = None
    /\ retries = 0
    /\ delay = 0
    /\ exit_code = None
    /\ result = None
    /\ attempts = 0
    /\ sleeps = <<>>
    /\ failures = {}
    /\ last = NoOutcome
    /\ last_request = None
    /\ fetched = <<>>
    /\ pages = <<>>
    /\ progress = <<>>

Init ==
    /\ pc = "call"
    /\ LoopSetUp
    /\ given = DefaultCriteria
    /\ raised = None
    /\ criteria = <<DefaultCriteria>>
    /\ today = MaxAge + 1
    /\ fql = <<to_fql(DefaultCriteria)>>
    /\ fql_filter = _build_fql_filter(DefaultCriteria, MaxAge + 1)
    /\ sent_filter = <<>>
    /\ element = NoElement
    /\ IndicatorBuilt

-----------------------------------------------------------------------------
(* FalconClient._query_with_retry *)

\* what the history keeps of a response and of an exception
Observed(response) ==
    [kind |-> "response", status_code |-> Get(response, "status_code", 0), message |-> <<>>]
Raised(message) == [kind |-> "exception", status_code |-> 0, message |-> message]

\* a client call whose offset moves on with every retry
ClientCallShifted(outcome) ==
    /\ pc = "call"
    /\ retries <= max_retries
    /\ last' = outcome
    /\ last_request' = [limit |-> limit, offset |-> offset + limit * retries]
    /\ sent_filter' = fql_filter

\* self.client.queryVulnerabilitiesCombined(filter, limit, offset) is called
\* inside `while retries <= max_retries` and answers with `outcome`
ClientCall(outcome) ==
    /\ pc = "call"
    /\ retries <= max_retries
    /\ last' = outcome
    /\ last_request' = [limit |-> limit, offset |-> offset]
    /\ sent_filter' = fql_filter

\* a caller that catches the SystemExit and returns what it has so far
SystemExitSwallowed(code) ==
    /\ pc' = "returned"
    /\ exit_code' = exit_code
    /\ result' = all_records

\* raise SystemExit(code): not an Exception, so the except clause lets it
\* pass and it ends query_vulnerabilities and the retrieval
RaiseSystemExit(code) ==
    /\ pc' = "exited"
    /\ exit_code' = code
    /\ result' = result

\* a comparison that lets one more retry through
RetriesExhaustedLate(r) == r > max_retries

\* if retries >= max_retries
RetriesExhausted(r) == r >= max_retries

\* a delay that grows linearly: `*` written for `**`
BackoffDelayLinear(r) == base_delay * (2 * r)

\* delay = base_delay * (2 ** retries)
BackoffDelay(r) == base_delay * (2 ^ r)

\* a retryable branch that gives up with NETWORK_ERROR once any attempt of the
\* page has failed in transport
RetryOrExitNetworkSticky(code) ==
    IF RetriesExhausted(retries)
    THEN /\ RaiseSystemExit(IF "network" \in failures THEN NETWORK_ERROR ELSE code)
         /\ UNCHANGED delay
    ELSE /\ pc' = "sleep"
         /\ delay' = BackoffDelay(retries)
         /\ UNCHANGED <<exit_code, result>>

\* the body of a retryable branch up to time.sleep: give up with `code` when
\* the retries are used up, else compute the delay and start sleeping
RetryOrExit(code) ==
    IF RetriesExhausted(retries)
    THEN /\ RaiseSystemExit(code)
         /\ UNCHANGED delay
    ELSE /\ pc' = "sleep"
         /\ delay' = BackoffDelay(retries)
         /\ UNCHANGED <<exit_code, result>>

\* the branch of _query_with_retry that retries after `outcome`, if any:
\* status 429, status 502, 503 or 504, or an exception whose message has
\* "timeout" or "connection" in it
FailureKind(outcome) ==
    IF outcome.kind = "response"
    THEN IF outcome.status_code = 429 THEN {"rate_limit"}
         ELSE IF outcome.status_code \in {502, 503, 504} THEN {"server_error"}
         ELSE {}
    ELSE IF outcome.kind = "exception" /\ IsNetworkError(outcome.message)
         THEN {"network"}
         ELSE {}

\* what no branch of _query_with_retry touches
LoopUnchanged ==
    /\ attempts' = IF pc = "call" THEN attempts + 1 ELSE attempts
    /\ failures' = IF pc = "call" THEN failures \cup FailureKind(last') ELSE failures
    /\ UNCHANGED <<progress_callback, all_records, offset, page_num, total_records,
                   fetched, pages, progress>>
    /\ UNCHANGED <<given, raised, criteria, today, fql, fql_filter, element>>
    /\ UNCHANGED indicator_vars

\* an except clause that also catches the SystemExit raised inside the try
\* block: the authentication failure leaves through the "unexpected error" path
Status401Caught ==
    \E response \in ErrorResponses :
        /\ Get(response, "status_code", 0) = 401
        /\ ClientCall(Observed(response))
        /\ RaiseSystemExit(API_ERROR)
        /\ UNCHANGED <<retries, delay, sleeps>>
        /\ LoopUnchanged

\* elif status_code == 401
Status401 ==
    \E response \in ErrorResponses :
        /\ Get(response, "status_code", 0) = 401
        /\ ClientCall(Observed(response))
        /\ RaiseSystemExit(AUTH_ERROR)
        /\ UNCHANGED <<retries, delay, sleeps>>
        /\ LoopUnchanged

\* elif status_code == 429
Status429 ==
    \E response \in ErrorResponses :
        /\ Get(response, "status_code", 0) = 429
        /\ ClientCall(Observed(response))
        /\ RetryOrExit(API_ERROR)
        /\ UNCHANGED <<retries, sleeps>>
        /\ LoopUnchanged

\* server errors taken for fatal: no retry
StatusServerErrorFatal ==
    \E response \in ErrorResponses :
        /\ Get(response, "status_code", 0) \in {502, 503, 504}
        /\ ClientCall(Observed(response))
        /\ RaiseSystemExit(API_ERROR)
        /\ UNCHANGED <<retries, delay, sleeps>>
        /\ LoopUnchanged

\* elif status_code in [502, 503, 504]
StatusServerError ==
    \E response \in ErrorResponses :
        /\ Get(response, "status_code", 0) \in {502, 503, 504}
        /\ ClientCall(Observed(response))
        /\ RetryOrExit(API_ERROR)
        /\ UNCHANGED <<retries, sleeps>>
        /\ LoopUnchanged

\* every status from 500 up taken for a server error and retried
StatusOtherRetried ==
    \E response \in ErrorResponses :
        /\ Get(response, "status_code", 0) \notin {200, 401, 429, 502, 503, 504}
        /\ ClientCall(Observed(response))
        /\ IF Get(response, "status_code", 0) >= 500
           THEN RetryOrExit(API_ERROR)
           ELSE RaiseSystemExit(API_ERROR) /\ UNCHANGED delay
        /\ UNCHANGED <<retries, sleeps>>
        /\ LoopUnchanged

\* else: any other status
StatusOther ==
    \E response \in ErrorResponses :
        /\ Get(response, "status_code", 0) \notin {200, 401, 429, 502, 503, 504}
        /\ ClientCall(Observed(response))
        /\ RaiseSystemExit(API_ERROR)
        /\ UNCHANGED <<retries, delay, sleeps>>
        /\ LoopUnchanged

\* except Exception as e, with "timeout" or "connection" in its message
ExceptionNetwork ==
    \E message \in RetryableMessages :
        /\ ClientCall(Raised(message))
        /\ RetryOrExit(NETWORK_ERROR)
        /\ UNCHANGED <<retries, sleeps>>
        /\ LoopUnchanged

\* except Exception as e, any other message
ExceptionOther ==
    \E message \in ExceptionMessages \ RetryableMessages :
        /\ ClientCall(Raised(message))
        /\ RaiseSystemExit(API_ERROR)
        /\ UNCHANGED <<retries, delay, sleeps>>
        /\ LoopUnchanged

\* a sleep that counts the retry after a status only: transport failures
\* have a budget of their own, never used up
BackoffSleepStatusOnly ==
    /\ pc = "sleep"
    /\ sleeps' = Append(sleeps, delay)
    /\ retries' = IF last.kind = "exception" THEN retries ELSE retries + 1
    /\ pc' = "call"
    /\ UNCHANGED <<exit_code, result>>
    /\ UNCHANGED <<delay, last, last_request, sent_filter>>
    /\ LoopUnchanged

\* time.sleep(delay) returns; retries += 1; continue. The loop test
\* `retries <= max_retries` then lets the next attempt start, or the code
\* after the loop raises SystemExit(API_ERROR)
BackoffSleep ==
    /\ pc = "sleep"
    /\ sleeps' = Append(sleeps, delay)
    /\ retries' = retries + 1
    /\ IF retries + 1 <= max_retries
       THEN pc' = "call" /\ UNCHANGED <<exit_code, result>>
       ELSE RaiseSystemExit(API_ERROR)
    /\ UNCHANGED <<delay, last, last_request, sent_filter>>
    /\ LoopUnchanged

-----------------------------------------------------------------------------
(* FalconClient.query_vulnerabilities: one turn of the pagination loop *)

\* a page count that rounds down: the last, partial page is not counted
TotalPagesFloor(total) == IF total # 0 THEN total \div limit ELSE 0

\* total_pages = (total_records + limit - 1) // limit if total_records else 0
TotalPages(total) == IF total # 0 THEN (total + limit - 1) \div limit ELSE 0

\* a strict comparison: a total that is an exact multiple of the page size
\* costs one more fetch
AllRetrievedStrict(o, total) == o + limit > total

\* a test that counts one page too many and stops a page early
AllRetrievedEarly(o, total) == o + 2 * limit >= total

\* a loop that goes on while it has no total to compare with: a total of 0
\* does not end it
AllRetrievedKnown(o, total) == total # 0 /\ o + limit >= total

\* if offset + limit >= total_records: break
AllRetrieved(o, total) == o + limit >= total

\* a callback called after the termination check, inside the part of the loop
\* that moves to the next page: the last page is never reported
ReportProgressAfterCheck(new_total, records) ==
    progress' =
        IF progress_callback /\ ~AllRetrieved(offset, new_total)
        THEN Append(progress, <<page_num, TotalPages(new_total), Len(records)>>)
        ELSE progress

\* if progress_callback: progress_callback(page_num, total_pages,
\* len(all_records)), with the accumulator as it is after the page
ReportProgress(new_total, records) ==
    progress' =
        IF progress_callback
        THEN Append(progress, <<page_num, TotalPages(new_total), Len(records)>>)
        ELSE progress

\* a retry count kept across the calls of _query_with_retry: the next page
\* starts with what the last one used
RetriesCarriedOver == retries

\* _query_with_retry: retries = 0, at every call
initial_retries == 0

\* a loop that also ends at the first page without resources
PageFetchedUntilEmpty(kind, has_total, total) ==
    LET response   == SuccessResponse(kind, offset, has_total, total)
        body       == Get(response, "body", <<>>)
        resources  == Get(body, "resources", <<>>)
        pagination == Get(Get(body, "meta", <<>>), "pagination", <<>>)
        new_total  == Get(pagination, "total", 0)
        records    == all_records \o ParsePage(resources)
    IN  /\ Get(response, "status_code", 0) = 200
        /\ ClientCall(Observed(response))
        /\ total_records' = new_total
        /\ all_records' = records
        /\ fetched' = Append(fetched, offset)
        /\ pages' = Append(pages, [total |-> new_total, kind |-> kind])
        /\ ReportProgress(new_total, records)
        /\ IF resources = <<>> \/ AllRetrieved(offset, new_total)
           THEN /\ pc' = "returned"
                /\ result' = records
                /\ attempts' = attempts + 1
                /\ UNCHANGED <<offset, page_num, retries, sleeps, failures>>
           ELSE /\ pc' = "call"
                /\ result' = result
                /\ offset' = offset + limit
                /\ page_num' = page_num + 1
                /\ retries' = initial_retries
                /\ attempts' = 0
                /\ sleeps' = <<>>
                /\ failures' = {}
        /\ UNCHANGED <<progress_callback, delay, exit_code>>
        /\ UNCHANGED <<given, raised, criteria, today, fql, fql_filter, element>>
        /\ UNCHANGED indicator_vars

\* if status_code == 200: return response. query_vulnerabilities then reads
\* the page, parses its elements, reports progress, and either returns the
\* accumulator or moves to the next page and calls _query_with_retry again
PageFetched(kind, has_total, total) ==
    LET response   == SuccessResponse(kind, offset, has_total, total)
        body       == Get(response, "body", <<>>)
        resources  == Get(body, "resources", <<>>)
        pagination == Get(Get(body, "meta", <<>>), "pagination", <<>>)
        new_total  == Get(pagination, "total", 0)
        records    == all_records \o ParsePage(resources)
    IN  /\ Get(response, "status_code", 0) = 200
        /\ ClientCall(Observed(response))
        /\ total_records' = new_total
        /\ all_records' = records
        /\ fetched' = Append(fetched, offset)
        /\ pages' = Append(pages, [total |-> new_total, kind |-> kind])
        /\ ReportProgress(new_total, records)
        /\ IF AllRetrieved(offset, new_total)
           THEN /\ pc' = "returned"
                /\ result' = records
                /\ attempts' = attempts + 1
                /\ UNCHANGED <<offset, page_num, retries, sleeps, failures>>
           ELSE /\ pc' = "call"
                /\ result' = result
                /\ offset' = offset + limit
                /\ page_num' = page_num + 1
                /\ retries' = initial_retries
                /\ attempts' = 0
                /\ sleeps' = <<>>
                /\ failures' = {}
        /\ UNCHANGED <<progress_callback, delay, exit_code>>
        /\ UNCHANGED <<given, raised, criteria, today, fql, fql_filter, element>>
        /\ UNCHANGED indicator_vars

\* a page of a few elements or none, with any total or without one
Status200 ==
    \E kind \in SmallKinds, has_total \in BOOLEAN, total \in Totals :
        PageFetched(kind, has_total, total)

\* a page of any size, up to a full one, from a service whose pages all report
\* the same total
Status200Stable ==
    \E kind \in PageKinds, total \in Totals :
        /\ IF pages = <<>> THEN TRUE ELSE total = pages[1].total
        /\ PageFetched(kind, TRUE, total)

-----------------------------------------------------------------------------

Next ==
    \/ Status200
    \/ Status401
    \/ Status429
    \/ StatusServerError
    \/ StatusOther
    \/ ExceptionNetwork
    \/ ExceptionOther
    \/ BackoffSleep

Spec == Init /\ [][Next]_vars

\* the retrieval against a service that never fails and whose total is stable
NextPages == Status200Stable

SpecPages == Init /\ [][NextPages]_vars

\* the retrieval against a service that answers 200 or 429 and nothing else
NextRateLimited ==
    \/ Status200
    \/ Status429
    \/ BackoffSleep

SpecRateLimited == Init /\ [][NextRateLimited]_vars

-----------------------------------------------------------------------------
(* The retrieval from the construction of its FilterCriteria on *)

\* the caller is about to build a FilterCriteria from some arguments, on some
\* day; query_vulnerabilities is not called yet
InitFilter ==
    /\ pc = "new"
    /\ LoopSetUp
    /\ ~progress_callback
    /\ given \in CriteriaArgs
    /\ raised = None
    /\ criteria = <<>>
    /\ today \in Dates
    /\ fql = <<>>
    /\ fql_filter = <<>>
    /\ sent_filter = <<>>
    /\ element = NoElement
    /\ IndicatorBuilt

\* FilterCriteria(...): the dataclass stores the arguments and __post_init__
\* checks them; a ValueError leaves the caller without an object
Construct ==
    /\ pc = "new"
    /\ criteria = <<>>
    /\ raised = None
    /\ IF PostInitRaises(given)
       THEN raised' = "ValueError" /\ criteria' = criteria
       ELSE raised' = raised /\ criteria' = <<given>>
    /\ UNCHANGED <<given, today, fql, fql_filter, sent_filter, element>>
    /\ UNCHANGED <<loop_vars, indicator_vars>>

\* query_vulnerabilities(criteria) up to its loop:
\* fql_filter = self._build_fql_filter(criteria), which calls criteria.to_fql()
BuildFilter ==
    /\ pc = "new"
    /\ criteria # <<>>
    /\ pc' = "call"
    /\ fql' = <<to_fql(criteria[1])>>
    /\ fql_filter' = _build_fql_filter(criteria[1], today)
    /\ UNCHANGED <<given, raised, criteria, today, sent_filter, element>>
    /\ UNCHANGED <<progress_callback, all_records, offset, page_num, total_records,
                   retries, delay, exit_code, result, attempts, sleeps, failures, last,
                   last_request, fetched, pages, progress>>
    /\ UNCHANGED indicator_vars

\* a page of a few elements or none, from a service whose pages all report
\* the same total
Status200Short ==
    \E kind \in SmallKinds, total \in Totals :
        /\ IF pages = <<>> THEN TRUE ELSE total = pages[1].total
        /\ PageFetched(kind, TRUE, total)

NextFilter ==
    \/ Construct
    \/ BuildFilter
    \/ Status200Short

SpecFilter == InitFilter /\ [][NextFilter]_vars

-----------------------------------------------------------------------------
(* FalconClient._parse_resource, field by field, and the loop over the       *)
(* resources of a page that calls it. Strings are sequences of characters.   *)

\* str.upper(), character by character
upper(s) ==
    [i \in DOMAIN s |->
        IF \E k \in DOMAIN LowerCase : LowerCase[k] = s[i]
        THEN UpperCase[CHOOSE k \in DOMAIN LowerCase : LowerCase[k] = s[i]]
        ELSE s[i]]

\* s.startswith(prefix)
StartsWith(prefix, s) == Len(s) >= Len(prefix) /\ SubSeq(s, 1, Len(prefix)) = prefix

\* the names of Severity.__members__, in characters
SeverityName ==
    [CRITICAL |-> <<"C", "R", "I", "T", "I", "C", "A", "L">>,
     HIGH     |-> <<"H", "I", "G", "H">>,
     MEDIUM   |-> <<"M", "E", "D", "I", "U", "M">>]

\* the literals of _parse_resource
UNKNOWN == <<"U", "N", "K", "N", "O", "W", "N">>
Unknown == <<"U", "n", "k", "n", "o", "w", "n">>
default_ip == <<"0", ".", "0", ".", "0", ".", "0">>
Workstation == <<"W", "o", "r", "k", "s", "t", "a", "t", "i", "o", "n">>
Desktop == <<"D", "e", "s", "k", "t", "o", "p">>
Server == <<"S", "e", "r", "v", "e", "r">>

\* the prefix of a CVE identifier
CvePrefix == <<"C", "V", "E", "-">>

\* the values an element can carry: identifiers with and without the CVE
\* prefix, severities in lower case (one of them no member), platform names
\* with the words of the inference in either case, alone and together, and
\* timestamps that are ISO dates, of a day before or after today (a missing
\* timestamp is read as "", which is no ISO date)
CveIds == {<<"C", "V", "E", "-", "1">>, <<"B", "A", "D", "-", "1">>}
SeverityStrings == {<<"h", "i", "g", "h">>, <<"l", "o", "w">>}
PlatformNames == {<<"W", "o", "r", "k", "s", "t", "a", "t", "i", "o", "n">>, <<"D", "e", "s", "k", "t", "o", "p">>,
                  <<"S", "e", "r", "v", "e", "r">>, <<"S", "e", "r", "v", "e", "r", " ", "D", "e", "s", "k", "t", "o", "p">>,
                  <<"L", "i", "n", "u", "x">>, <<"s", "e", "r", "v", "e", "r">>}
Timestamps ==
    {[iso |-> TRUE, day |-> MaxAge], [iso |-> TRUE, day |-> MaxAge + 2]}

\* a dict with some of the keys of `full`
Restrict(full, keys) == [k \in keys |-> full[k]]

\* the dicts under "cve" and "host", and the elements: every key may be missing
CveDicts ==
    {Restrict([id |-> i, severity |-> v], keys) :
        i \in CveIds, v \in SeverityStrings, keys \in SUBSET {"id", "severity"}}
HostDicts ==
    {Restrict([platform_name |-> n], keys) :
        n \in PlatformNames, keys \in SUBSET {"platform_name"}}
Elements ==
    {Restrict([cve |-> c, host |-> h, created_timestamp |-> t], keys) :
        c \in CveDicts, h \in HostDicts, t \in Timestamps,
        keys \in SUBSET {"cve", "host", "created_timestamp"}}

\* an inference that tests "Server" first
InferDeviceTypeServerFirst(platform_name, c) ==
    IF Contains(Server, platform_name) THEN "SERVER"
    ELSE IF Contains(Workstation, platform_name) \/ Contains(Desktop, platform_name)
    THEN "CLIENT"
    ELSE c.device_type

\* if "Workstation" in platform_name or "Desktop" in platform_name: CLIENT;
\* elif "Server" in platform_name: SERVER; else criteria.device_type
InferDeviceType(platform_name, c) ==
    IF Contains(Workstation, platform_name) \/ Contains(Desktop, platform_name)
    THEN "CLIENT"
    ELSE IF Contains(Server, platform_name) THEN "SERVER"
    ELSE c.device_type

\* the arguments _parse_resource passes to Vulnerability(...) and Device(...)
\* for an element, with criteria c, on day t
ParseResource(resource, c, t) ==
    LET cve_data          == Get(resource, "cve", <<>>)
        cve_id            == Get(cve_data, "id", UNKNOWN)
        severity_str      == upper(Get(cve_data, "severity", SeverityName.MEDIUM))
        severity          == IF \E n \in Severity : SeverityName[n] = severity_str
                             THEN CHOOSE n \in Severity : SeverityName[n] = severity_str
                             ELSE "MEDIUM"
        created_timestamp == Get(resource, "created_timestamp", [iso |-> FALSE, day |-> 0])
        days_open         == IF created_timestamp.iso THEN t - created_timestamp.day ELSE 0
        host_data         == Get(resource, "host", <<>>)
        hostname          == Get(host_data, "hostname", UNKNOWN)
        local_ip          == Get(host_data, "local_ip", default_ip)
        platform_name     == Get(host_data, "platform_name", Unknown)
    IN  [vulnerability |-> [cve_id |-> cve_id, severity |-> severity,
                            days_open |-> days_open],
         device |-> [hostname |-> hostname, local_ip |-> local_ip,
                     device_type |-> InferDeviceType(platform_name, c),
                     platform_name |-> platform_name]]

\* Vulnerability.__post_init__: ValueError for an identifier that does not
\* start with "CVE-" and for a negative days_open
VulnerabilityRaises(v) == ~StartsWith(CvePrefix, v.cve_id) \/ v.days_open < 0

\* Device.__post_init__: ValueError for an empty hostname or local_ip
DeviceRaises(d) == d.hostname = <<>> \/ d.local_ip = <<>>

\* whether _parse_resource raises on the element: one of the two
\* constructors does
ParseResourceRaises(resource, c, t) ==
    \/ VulnerabilityRaises(ParseResource(resource, c, t).vulnerability)
    \/ DeviceRaises(ParseResource(resource, c, t).device)

\* the retrieval is in its loop, with criteria of any device type
InitParser ==
    /\ pc = "call"
    /\ LoopSetUp
    /\ ~progress_callback
    /\ given \in {[DefaultCriteria EXCEPT !.device_type = d] : d \in DeviceType}
    /\ raised = None
    /\ criteria = <<given>>
    /\ today = MaxAge + 1
    /\ fql = <<to_fql(given)>>
    /\ fql_filter = _build_fql_filter(given, today)
    /\ sent_filter = <<>>
    /\ element = NoElement
    /\ IndicatorBuilt

\* the body of `for resource in resources`: record =
\* self._parse_resource(resource, criteria); all_records.append(record); an
\* exception is logged as a warning and the loop continues
HandleElement ==
    \E resource \in Elements :
        /\ pc = "call"
        /\ element.index < MaxElements
        /\ element' = [resource |-> resource,
                       raised |-> ParseResourceRaises(resource, criteria[1], today),
                       index |-> element.index + 1]
        /\ all_records' =
               IF ParseResourceRaises(resource, criteria[1], today)
               THEN all_records
               ELSE Append(all_records, ParseResource(resource, criteria[1], today))
        /\ UNCHANGED <<pc, progress_callback, offset, page_num, total_records, retries,
                       delay, exit_code, result, attempts, sleeps, failures, last, last_request,
                       fetched, pages, progress>>
        /\ UNCHANGED <<given, raised, criteria, today, fql, fql_filter, sent_filter>>
        /\ UNCHANGED indicator_vars

NextParser == HandleElement

SpecParser == InitParser /\ [][NextParser]_vars

-----------------------------------------------------------------------------
(* ProgressIndicator (services/progress.py): str() of a number *)

\* total_str of _print_progress: str(self.total_pages) when total_pages is a
\* positive number, "?" when it is None or 0
TotalStr(total) ==
    IF total # <<>> /\ total[1] > 0 THEN str(total[1]) ELSE <<"?">>

\* what a line shows of a triple (current_page, total_pages, record_count)
Shown(page, total, count) ==
    [page |-> str(page), total |-> TotalStr(total), records |-> str(count)]

\* the triples update is called with: page k of MaxUpdates pages, k pages of
\* records retrieved
Snapshots == {<<k, MaxUpdates, k * limit>> : k \in 1..MaxUpdates}

-----------------------------------------------------------------------------
(* ProgressIndicator: the calling thread *)

\* a background thread as threading.Thread(target=self._run).start() leaves
\* it: started, _run not yet entered
NewThread ==
    [pc |-> "spawned", deadline |-> 0, woken |-> FALSE, total_str |-> <<>>, page |-> 0]

\* a background thread whose _run has returned
Done == [pc |-> "done", deadline |-> 0, woken |-> FALSE, total_str |-> <<>>, page |-> 0]

\* self._stop_event.set(): the threads blocked in self._stop_event.wait are
\* woken and their wait returns True, whatever happens to the flag later
Notify(ts) ==
    [k \in DOMAIN ts |->
        IF ts[k].pc \in {"waiting", "cadence"} THEN [ts[k] EXCEPT !.woken = TRUE] ELSE ts[k]]

\* a start() without the test of self._started
StartAgain == TRUE

\* start(): `if self._started: return` lets the call go on when not started
StartProceeds == ~_started

\* start()
start ==
    /\ main_pc = "idle"
    /\ IF StartProceeds
       THEN /\ Len(threads) < MaxThreads
            /\ _started' = TRUE
            /\ _stop_event' = FALSE
            /\ threads' = Append(threads, NewThread)
            /\ _thread' = Len(threads) + 1
            /\ started_time' = now
            /\ last_line' = NoLine
            /\ printed' = 0
            /\ last_call' = "start"
       ELSE /\ last_call' = "start: already started"
            /\ UNCHANGED <<_started, _stop_event, threads, _thread, started_time,
                           last_line, printed>>
    /\ UNCHANGED <<current_page, total_pages, record_count, _last_update_time,
                   main_pc, args, join_deadline, now, passed>>
    /\ UNCHANGED client_vars

\* stop() up to the call of join: nothing when not started, else the flag is
\* set and the thread joined for at most join_timeout
stop ==
    /\ main_pc = "idle"
    /\ IF _started
       THEN /\ _stop_event' = TRUE
            /\ threads' = Notify(threads)
            /\ main_pc' = "join"
            /\ join_deadline' = now + join_timeout
            /\ last_call' = "stop"
       ELSE /\ last_call' = "stop: not started"
            /\ UNCHANGED <<_stop_event, threads, main_pc, join_deadline>>
    /\ UNCHANGED <<current_page, total_pages, record_count, _started, _thread,
                   _last_update_time, args, now, last_line, printed, passed,
                   started_time>>
    /\ UNCHANGED client_vars

\* a join without a timeout: it is over when the thread has ended, not before
JoinOverUnbounded == threads[_thread].pc = "done"

\* self._thread.join(timeout=1.0) is over: the thread has ended or the
\* timeout has passed
JoinOver == threads[_thread].pc = "done" \/ now >= join_deadline

\* stop(): join returns, and self._started = False
stop_join ==
    /\ main_pc = "join"
    /\ JoinOver
    /\ _started' = FALSE
    /\ main_pc' = "idle"
    /\ join_deadline' = 0
    /\ UNCHANGED <<current_page, total_pages, record_count, _stop_event, _thread,
                   _last_update_time, threads, args, now, last_line, printed,
                   passed, started_time, last_call>>
    /\ UNCHANGED client_vars

\* update(page_num, total_pages, record_count): self.current_page = page_num
update(a) ==
    /\ main_pc = "idle"
    /\ last_call' = "update"
    /\ args' = a
    /\ passed' = passed \cup {a}
    /\ current_page' = a[1]
    /\ main_pc' = "update_total"
    /\ UNCHANGED <<total_pages, record_count, _started, _stop_event, _thread,
                   _last_update_time, threads, join_deadline, now, last_line, printed,
                   started_time>>
    /\ UNCHANGED client_vars

\* update: self.total_pages = total_pages
update_total ==
    /\ main_pc = "update_total"
    /\ total_pages' = <<args[2]>>
    /\ main_pc' = "update_count"
    /\ UNCHANGED <<current_page, record_count, _started, _stop_event, _thread,
                   _last_update_time, threads, args, join_deadline, now, last_line,
                   printed, passed, started_time, last_call>>
    /\ UNCHANGED client_vars

\* update: self.record_count = record_count
update_count ==
    /\ main_pc = "update_count"
    /\ record_count' = args[3]
    /\ main_pc' = "idle"
    /\ UNCHANGED <<current_page, total_pages, _started, _stop_event, _thread,
                   _last_update_time, threads, args, join_deadline, now, last_line,
                   printed, passed, started_time, last_call>>
    /\ UNCHANGED client_vars

-----------------------------------------------------------------------------
(* ProgressIndicator: a background thread, _run and _print_progress *)

\* background threads that run only while the primary thread is not inside
\* time.sleep
ThreadStalledBySleep ==
    /\ pc # "sleep"
    /\ UNCHANGED <<current_page, total_pages, record_count, _started, _stop_event,
                   _thread, main_pc, args, join_deadline, now, passed,
                   started_time, last_call>>
    /\ UNCHANGED client_vars

\* what the steps of a background thread leave alone
ThreadUnchanged ==
    /\ UNCHANGED <<current_page, total_pages, record_count, _started, _stop_event,
                   _thread, main_pc, args, join_deadline, now, passed,
                   started_time, last_call>>
    /\ UNCHANGED client_vars

\* the thread enters self._stop_event.wait(timeout): with the flag set the
\* wait returns True at once, else the thread blocks until the flag is set
\* or the timeout has passed
EnterWait(t, where, timeout) ==
    [t EXCEPT !.pc = where, !.deadline = now + timeout, !.woken = _stop_event]

\* the thread with the locals of _print_progress gone
Current(t) == [t EXCEPT !.total_str = <<>>, !.page = 0]

\* the thread out of its wait and at `where`
Leave(t, where) == [t EXCEPT !.pc = where, !.deadline = 0, !.woken = FALSE]

\* _run is entered: self._stop_event.wait(self.delay_seconds)
run_enter(k) ==
    /\ threads[k].pc = "spawned"
    /\ threads' = [threads EXCEPT ![k] = EnterWait(@, "waiting", delay_seconds)]
    /\ UNCHANGED <<_last_update_time, last_line, printed>>
    /\ ThreadUnchanged

\* the timeout of the wait has passed
QuietElapsed(t) == now >= t.deadline

\* if self._stop_event.wait(self.delay_seconds): return -- else the thread
\* goes to the test of the while loop
run_quiet(k) ==
    /\ threads[k].pc = "waiting"
    /\ IF threads[k].woken
       THEN threads' = [threads EXCEPT ![k] = Done]
       ELSE /\ QuietElapsed(threads[k])
            /\ threads' = [threads EXCEPT ![k] = Leave(@, "loop")]
    /\ UNCHANGED <<_last_update_time, last_line, printed>>
    /\ ThreadUnchanged

\* while not self._stop_event.is_set()
run_loop(k) ==
    /\ threads[k].pc = "loop"
    /\ threads' = [threads EXCEPT ![k].pc = IF _stop_event THEN "done" ELSE "print"]
    /\ UNCHANGED <<_last_update_time, last_line, printed>>
    /\ ThreadUnchanged

\* _print_progress, lines 71-76: nothing is printed within `throttle` of the
\* last line, and the thread goes to the wait of the loop; else the time is
\* noted. (time.time() is far from the 0.0 of __init__: so is the clock here
\* when the first line is due, delay_seconds after the first start.)
print_throttle(k) ==
    /\ threads[k].pc = "print"
    /\ IF now - _last_update_time < throttle
       THEN /\ threads' = [threads EXCEPT ![k] = EnterWait(@, "cadence", cadence)]
            /\ UNCHANGED _last_update_time
       ELSE /\ threads' = [threads EXCEPT ![k].pc = "total"]
            /\ _last_update_time' = now
    /\ UNCHANGED <<last_line, printed>>
    /\ ThreadUnchanged

\* _print_progress, lines 78-81: total_str is made from self.total_pages
print_total(k) ==
    /\ threads[k].pc = "total"
    /\ threads' = [threads EXCEPT ![k].pc = "page", ![k].total_str = TotalStr(total_pages)]
    /\ UNCHANGED <<_last_update_time, last_line, printed>>
    /\ ThreadUnchanged

\* _print_progress, line 85: the f-string reads self.current_page
print_page(k) ==
    /\ threads[k].pc = "page"
    /\ threads' = [threads EXCEPT ![k].pc = "count", ![k].page = current_page]
    /\ UNCHANGED <<_last_update_time, last_line, printed>>
    /\ ThreadUnchanged

\* a _print_progress that clears record_count once the line is printed
print_line_clearing(k) ==
    /\ threads[k].pc = "count"
    /\ last_line' = [page |-> str(threads[k].page), total |-> threads[k].total_str,
                     records |-> str(record_count), thread |-> k,
                     since |-> now - started_time]
    /\ printed' = printed + 1
    /\ threads' = [threads EXCEPT ![k] = EnterWait(Current(@), "cadence", cadence)]
    /\ record_count' = 0
    /\ UNCHANGED <<current_page, total_pages, _started, _stop_event, _thread,
                   _last_update_time, main_pc, args, join_deadline, now, passed,
                   started_time, last_call>>
    /\ UNCHANGED client_vars

\* _print_progress, lines 84-88: the f-string reads self.record_count and the
\* line is printed; back in _run the thread enters self._stop_event.wait(2.0)
print_line(k) ==
    /\ threads[k].pc = "count"
    /\ last_line' = [page |-> str(threads[k].page), total |-> threads[k].total_str,
                     records |-> str(record_count), thread |-> k,
                     since |-> now - started_time]
    /\ printed' = printed + 1
    /\ threads' = [threads EXCEPT ![k] = EnterWait(Current(@), "cadence", cadence)]
    /\ UNCHANGED _last_update_time
    /\ ThreadUnchanged

\* a loop that ends after its first round, whatever the wait returned
run_cadence_once(k) ==
    /\ threads[k].pc = "cadence"
    /\ IF threads[k].woken
       THEN threads' = [threads EXCEPT ![k] = Done]
       ELSE /\ now >= threads[k].deadline
            /\ threads' = [threads EXCEPT ![k] = Done]
    /\ UNCHANGED <<_last_update_time, last_line, printed>>
    /\ ThreadUnchanged

\* a loop that answers the signal with one more round instead of ending
run_cadence_again(k) ==
    /\ threads[k].pc = "cadence"
    /\ IF threads[k].woken
       THEN threads' = [threads EXCEPT ![k] = Leave(@, "print")]
       ELSE /\ now >= threads[k].deadline
            /\ threads' = [threads EXCEPT ![k] = Leave(@, "loop")]
    /\ UNCHANGED <<_last_update_time, last_line, printed>>
    /\ ThreadUnchanged

\* if self._stop_event.wait(2.0): break -- else the loop goes round
run_cadence(k) ==
    /\ threads[k].pc = "cadence"
    /\ IF threads[k].woken
       THEN threads' = [threads EXCEPT ![k] = Done]
       ELSE /\ now >= threads[k].deadline
            /\ threads' = [threads EXCEPT ![k] = Leave(@, "loop")]
    /\ UNCHANGED <<_last_update_time, last_line, printed>>
    /\ ThreadUnchanged

\* a second passes; join(timeout) does not outlast its timeout
Tick ==
    /\ now < MaxTime
    /\ ~(main_pc = "join" /\ now >= join_deadline)
    /\ now' = now + 1
    /\ UNCHANGED <<current_page, total_pages, record_count, _started, _stop_event,
                   _thread, _last_update_time, threads, main_pc, args,
                   join_deadline, last_line, printed, passed, started_time,
                   last_call>>
    /\ UNCHANGED client_vars

-----------------------------------------------------------------------------

\* the indicator is built and no retrieval is going on
InitIndicator == Init /\ ~progress_callback

Update == \E a \in Snapshots : update(a)
RunEnter == \E k \in DOMAIN threads : run_enter(k)
RunQuiet == \E k \in DOMAIN threads : run_quiet(k)
RunLoop == \E k \in DOMAIN threads : run_loop(k)
PrintThrottle == \E k \in DOMAIN threads : print_throttle(k)
PrintTotal == \E k \in DOMAIN threads : print_total(k)
PrintPage == \E k \in DOMAIN threads : print_page(k)
PrintLine == \E k \in DOMAIN threads : print_line(k)
RunCadence == \E k \in DOMAIN threads : run_cadence(k)

\* the steps of the background threads
ThreadStep ==
    \/ RunEnter
    \/ RunQuiet
    \/ RunLoop
    \/ PrintThrottle
    \/ PrintTotal
    \/ PrintPage
    \/ PrintLine
    \/ RunCadence

\* the indicator under start and stop, its fields never updated
NextLifecycle ==
    \/ start
    \/ stop
    \/ stop_join
    \/ ThreadStep
    \/ Tick

SpecLifecycle == InitIndicator /\ [][NextLifecycle]_vars

\* the background threads are scheduled again and again
FairThreads == WF_vars(ThreadStep)

\* start() called when no thread of an earlier start() is still running
StartWhenExited == (\A k \in DOMAIN threads : threads[k].pc = "done") /\ start

\* the indicator started, stopped, and started again once its thread has ended
NextStopped ==
    \/ StartWhenExited
    \/ stop
    \/ stop_join
    \/ ThreadStep
    \/ Tick

\* the indicator under start and stop, its threads scheduled
SpecStopped == InitIndicator /\ [][NextStopped]_vars /\ FairThreads

\* the second after the last one of Tick passes
LastTick ==
    /\ now = MaxTime
    /\ ~(main_pc = "join" /\ now >= join_deadline)
    /\ now' = now + 1
    /\ UNCHANGED <<current_page, total_pages, record_count, _started, _stop_event,
                   _thread, _last_update_time, threads, main_pc, args,
                   join_deadline, last_line, printed, passed, started_time,
                   last_call>>
    /\ UNCHANGED client_vars

\* the indicator under start and stop, followed for one second more
NextThrottle ==
    \/ start
    \/ stop
    \/ stop_join
    \/ ThreadStep
    \/ Tick
    \/ LastTick

SpecThrottle == InitIndicator /\ [][NextThrottle]_vars

\* the indicator started and never stopped
NextCadence ==
    \/ start
    \/ ThreadStep
    \/ Tick
    \/ LastTick

\* the background thread is scheduled again and again, and time passes
FairCadence == WF_vars(ThreadStep) /\ WF_vars(Tick) /\ WF_vars(LastTick)

SpecCadence == InitIndicator /\ [][NextCadence]_vars /\ FairCadence

\* the indicator started, updated while its thread reports, and stopped
NextSnapshot ==
    \/ start
    \/ stop
    \/ stop_join
    \/ Update
    \/ update_total
    \/ update_count
    \/ ThreadStep
    \/ Tick

SpecSnapshot == InitIndicator /\ [][NextSnapshot]_vars

\* start() by the caller of query_vulnerabilities, before the retrieval
StartBeforeQuery == last.kind = "none" /\ start

\* stop() by the caller of query_vulnerabilities, once the retrieval is over
StopAfterQuery == pc \in {"returned", "exited"} /\ stop

\* a retrieval whose first page is answered 429 again and again, with the
\* indicator started before it and stopped after it
NextReported ==
    \/ StartBeforeQuery
    \/ Status429
    \/ BackoffSleep
    \/ StopAfterQuery
    \/ stop_join
    \/ ThreadStep
    \/ Tick

SpecReported == InitIndicator /\ [][NextReported]_vars

\* the progress callback of the retrieval is the update method of the
\* indicator: the triple published for the last page is passed to update
Publish ==
    /\ progress # <<>>
    /\ progress[Len(progress)] \notin passed
    /\ update(progress[Len(progress)])

\* the next page is fetched once the callback of the page before it returned;
\* the pages are small, and report the total of the first page or none
Status200Published ==
    /\ main_pc = "idle"
    /\ IF progress = <<>> THEN TRUE ELSE progress[Len(progress)] \in passed
    /\ \E kind \in SmallKinds, has_total \in BOOLEAN, total \in Totals :
           /\ IF pages = <<>> THEN TRUE ELSE total = pages[1].total
           /\ PageFetched(kind, has_total, total)

\* the retrieval has a progress callback
InitPublished == Init /\ progress_callback

\* start() by the caller, as soon as the indicator is built
StartAtOnce == now = 0 /\ StartBeforeQuery

\* a retrieval that publishes every page to an indicator started before it
\* and stopped after it
NextPublished ==
    \/ StartAtOnce
    \/ Status200Published
    \/ Publish
    \/ update_total
    \/ update_count
    \/ StopAfterQuery
    \/ stop_join
    \/ ThreadStep
    \/ Tick

SpecPublished == InitPublished /\ [][NextPublished]_vars

-----------------------------------------------------------------------------
(* Properties *)

RECURSIVE SumSeq(_)
SumSeq(s) == IF s = <<>> THEN 0 ELSE Head(s) + SumSeq(Tail(s))

\* C1: against a service that answers every failed attempt with 429, a page
\* never sees more than 6 attempts; a 429 on the sixth attempt ends the call;
\* and whenever the call has ended fatally, the page saw exactly 6 attempts
\* and exactly 5 sleeps, of 1, 2, 4, 8 and 16 (31 in all), and the exit code is
\* API_ERROR, the code of exhausted retries.
C1_RetryExhaustion ==
    /\ attempts <= 6
    /\ (attempts = 6 /\ last.status_code = 429) => pc = "exited"
    /\ pc = "exited" =>
          /\ attempts = 6
          /\ sleeps = <<1, 2, 4, 8, 16>>
          /\ SumSeq(sleeps) = 31
          /\ last.status_code = 429
          /\ exit_code = API_ERROR

\* C1 witness: the sixth 429 in a row has ended the call
C1_Witness ==
    pc = "exited" /\ last.status_code = 429 /\ attempts = 6 /\ Len(sleeps) = 5

\* C2: a 401 on any attempt ends the call at once with AUTH_ERROR: the call
\* has exited, nothing more can happen, and every sleep of the page came
\* before an attempt (none follows the 401).
C2_AuthShortCircuit ==
    last.status_code = 401 =>
        /\ pc = "exited"
        /\ exit_code = AUTH_ERROR
        /\ ~ENABLED Next
        /\ Len(sleeps) = attempts - 1
        /\ retries = attempts - 1

\* C2 witness: a 401 on the third attempt of a page, after two retries
C2_Witness ==
    last.status_code = 401 /\ pc = "exited" /\ attempts = 3 /\ sleeps = <<1, 2>>

-----------------------------------------------------------------------------
(* What the pagination loop received, read back from the history *)

\* ceil(a / b), by its definition
Ceil(a, b) == CHOOSE n \in 0..a : n * b >= a /\ (n = 0 \/ (n - 1) * b < a)

Max(a, b) == IF a >= b THEN a ELSE b

\* the resources of the i-th page fetched
PageResources(i) == Resources(pages[i].kind, fetched[i])

\* all the elements received, page after page, each page in the order received
RECURSIVE ReceivedUpTo(_)
ReceivedUpTo(n) == IF n = 0 THEN <<>> ELSE ReceivedUpTo(n - 1) \o PageResources(n)
Received == ReceivedUpTo(Len(fetched))

\* the records of the elements received that parse, in the order received
ParsedReceived ==
    LET good == SelectSeq(Received, LAMBDA r : ~r.malformed)
    IN  [i \in DOMAIN good |-> [device_id |-> good[i].id]]

\* every page fetched so far reported the total T
AllReport(T) == \A i \in DOMAIN pages : pages[i].total = T

\* the call returned after pages that all reported the same total, and as many
\* elements were received as that total
ReturnedComplete ==
    /\ pc = "returned"
    /\ AllReport(total_records)
    /\ Len(Received) = total_records

\* C3 as stated: after pages that all report the total T and carry T elements
\* in all, exactly ceil(T / limit) pages were fetched and the result is the
\* concatenation of the parsed resources.
C3_Original ==
    ReturnedComplete =>
        /\ Len(fetched) = Ceil(total_records, limit)
        /\ result = ParsedReceived

\* C3 amended: after pages that all report the total T and carry T elements
\* in all, exactly max(1, ceil(T / limit)) pages were fetched (one page even
\* when T = 0), at offsets 0, limit, 2 * limit, ..., and the result is the
\* concatenation of the parsed resources.
C3_PaginationTerminates ==
    ReturnedComplete =>
        /\ Len(fetched) = Max(1, Ceil(total_records, limit))
        /\ \A i \in DOMAIN fetched : fetched[i] = (i - 1) * 500
        /\ result = ParsedReceived

\* C3 witness: a total of limit + ShortLen, a full page and a short one: two
\* fetches, at offsets 0 and 500, and one element of the second page skipped
C3_Witness ==
    /\ ReturnedComplete
    /\ total_records = 500 + ShortLen
    /\ fetched = <<0, 500>>
    /\ Len(result) = 500 + ShortLen - 1

-----------------------------------------------------------------------------

\* the statuses and messages _query_with_retry retries
RetryableStatuses == {429, 502, 503, 504}
ReadTimeoutMessage == <<"R", "e", "a", "d", " ", "T", "i", "m", "e", "o", "u", "t">>
ConnectionResetMessage ==
    <<"C", "o", "n", "n", "e", "c", "t", "i", "o", "n", " ", "r", "e", "s", "e", "t">>
TimeoutOrConnection == {ReadTimeoutMessage, ConnectionResetMessage}

\* the last client call answered with one of the given statuses
LastStatusIn(S) == last.kind = "response" /\ last.status_code \in S
\* the last client call raised a timeout or a connection failure
LastIsTransportFailure == last.kind = "exception" /\ last.message \in TimeoutOrConnection
\* the last client call raised some other exception
LastIsOtherException == last.kind = "exception" /\ last.message \notin TimeoutOrConnection

\* the codes of the fatal classifications
FatalCodes == {AUTH_ERROR, NETWORK_ERROR, API_ERROR}

C5_FatalPropagation ==
    /\ pc = "exited" =>
          /\ exit_code \in FatalCodes
          /\ ~LastStatusIn({200})
          /\ result = None
          /\ last_request = [limit |-> 500, offset |-> offset]
          /\ Len(fetched) = page_num - 1
          /\ \A i \in DOMAIN fetched : fetched[i] < offset
          /\ Len(progress) = IF progress_callback THEN page_num - 1 ELSE 0
          /\ \A i \in DOMAIN progress : progress[i][1] < page_num
          /\ ~ENABLED Next
    /\ pc = "returned" => LastStatusIn({200}) /\ Len(fetched) = page_num

\* C5 witness: the second page failed fatally after the first was fetched and
\* reported
C5_Witness ==
    /\ pc = "exited"
    /\ page_num = 2
    /\ fetched = <<0>>
    /\ progress_callback
    /\ Len(progress) = 1

\* C6 as stated: the code of retries exhausted on a retryable status differs
\* from API_ERROR, the code of a status that is not retried.
C6_ExhaustionDistinct ==
    (pc = "exited" /\ LastStatusIn(RetryableStatuses)) => exit_code # API_ERROR

\* C7: a status other than 200, 401, 429, 502, 503, 504 (0 when the response
\* has none) ends the call at once with API_ERROR, whatever the retries used:
\* nothing more can happen, and every sleep of the page came before an attempt.
C7_OtherStatusFatal ==
    (last.kind = "response" /\ last.status_code \notin {200, 401, 429, 502, 503, 504}) =>
        /\ pc = "exited"
        /\ exit_code = API_ERROR
        /\ ~ENABLED Next
        /\ Len(sleeps) = attempts - 1
        /\ retries = attempts - 1

\* C7 witness: a response without status_code on the third attempt
C7_Witness ==
    /\ last.kind = "response"
    /\ last.status_code = 0
    /\ pc = "exited"
    /\ retries = 2

\* C8: an attempt answered 429, 502, 503 or 504 with fewer than 5 retries
\* used starts a sleep; a sleep is followed by the next attempt of the same
\* page, one retry more being used; an attempt answered 200 ends the page: it
\* is fetched, and the call returns or moves to the next offset without a sleep.
C8_Step ==
    /\ (pc = "call" /\ last'.kind = "response" /\ last'.status_code \in RetryableStatuses
            /\ retries < 5) =>
          /\ pc' = "sleep"
          /\ attempts' = attempts + 1
          /\ UNCHANGED <<retries, sleeps, offset, page_num, all_records, fetched>>
    /\ pc = "sleep" =>
          /\ pc' = "call"
          /\ retries' = retries + 1
          /\ Len(sleeps') = Len(sleeps) + 1
          /\ UNCHANGED <<attempts, offset, page_num, all_records, fetched>>
    /\ (pc = "call" /\ last'.kind = "response" /\ last'.status_code = 200) =>
          /\ fetched' = Append(fetched, offset)
          /\ \/ pc' = "returned" /\ UNCHANGED <<sleeps, retries, offset>>
             \/ pc' = "call" /\ offset' = offset + 500 /\ sleeps' = <<>> /\ retries' = 0

C8_RetryableStatuses == [][C8_Step]_vars

\* C8 witness: after three retries of a page answered 503 the next attempt is
\* about to start
C8_Witness ==
    /\ pc = "call"
    /\ LastStatusIn({503})
    /\ retries = 3
    /\ attempts = 3
    /\ Len(sleeps) = 3

\* C9: an attempt that raises a timeout or a connection failure (an exception
\* whose message has the word, in any case) starts a sleep while fewer than 5
\* retries are used, and ends the call with NETWORK_ERROR once 5 are used; an
\* attempt that raises any other exception ends the call at once with
\* API_ERROR and no sleep.
C9_Step ==
    /\ (pc = "call" /\ last'.kind = "exception" /\ last'.message \in TimeoutOrConnection) =>
          IF retries < 5
          THEN pc' = "sleep" /\ UNCHANGED <<retries, sleeps, exit_code>>
          ELSE pc' = "exited" /\ exit_code' = NETWORK_ERROR /\ UNCHANGED <<retries, sleeps>>
    /\ (pc = "call" /\ last'.kind = "exception" /\ last'.message \notin TimeoutOrConnection) =>
          /\ pc' = "exited"
          /\ exit_code' = API_ERROR
          /\ UNCHANGED <<retries, sleeps>>
    /\ (LastIsTransportFailure /\ pc = "sleep") => pc' = "call" /\ retries' = retries + 1

C9_TransportOutcomes == [][C9_Step]_vars

\* C9 witness: the sixth attempt of a page raised a timeout and the call ended
\* with NETWORK_ERROR
C9_Witness ==
    /\ pc = "exited"
    /\ last.kind = "exception"
    /\ last.message = ReadTimeoutMessage
    /\ exit_code = NETWORK_ERROR
    /\ attempts = 6
    /\ retries = 5

\* C10: the sleeps of a page are 1, 2, 4, 8, 16 in this order, whatever
\* failed; the sleep in progress is the next of them; and every attempt after
\* the first follows exactly one sleep: before an attempt there were as many
\* sleeps as attempts, after it one less.
C10_BackoffSchedule ==
    /\ Len(sleeps) <= 5
    /\ sleeps = SubSeq(<<1, 2, 4, 8, 16>>, 1, Len(sleeps))
    /\ pc = "sleep" => delay = <<1, 2, 4, 8, 16>>[Len(sleeps) + 1]
    /\ pc = "call" => Len(sleeps) = attempts
    /\ pc \in {"sleep", "exited", "returned"} => Len(sleeps) = attempts - 1

\* C10 witness: five sleeps done, the last failure a transport failure, the
\* sixth attempt about to start
C10_Witness ==
    /\ pc = "call"
    /\ sleeps = <<1, 2, 4, 8, 16>>
    /\ LastIsTransportFailure
    /\ attempts = 5

-----------------------------------------------------------------------------

\* C11: pages are fetched one after the other in increasing offset order: the
\* i-th page fetched is the one at offset (i - 1) * limit, so no offset is
\* skipped or repeated; the offset being requested is the first one not yet
\* fetched, and no request was ever sent for a later one; and the accumulator
\* is the concatenation of the parsed pages in that order, each page in the
\* order received.
C11_SerialOffsets ==
    /\ \A i \in DOMAIN fetched : fetched[i] = (i - 1) * limit
    /\ pc \in {"call", "sleep", "exited"} => offset = Len(fetched) * limit
    /\ pc = "returned" => offset = (Len(fetched) - 1) * limit
    /\ IF last.kind = "none"
       THEN fetched = <<>>
       ELSE /\ last_request.offset \in {offset, offset - limit}
            /\ last_request.offset <= Len(fetched) * limit
    /\ all_records = ParsedReceived

\* C11 witness: two pages fetched at offsets 0 and 500, each with an element
\* skipped, and the request for offset 1000 failed once and is being retried
C11_Witness ==
    /\ pc = "sleep"
    /\ fetched = <<0, 500>>
    /\ last_request = [limit |-> 500, offset |-> 1000]
    /\ all_records = <<[device_id |-> 1], [device_id |-> 3],
                       [device_id |-> 501], [device_id |-> 503]>>

\* the elements received so far that _parse_resource raised on
Skipped == SelectSeq(Received, LAMBDA r : r.malformed)

\* C12: an element whose parsing raises is skipped and nothing else is lost:
\* the accumulator has one record for every element received that parses, in
\* the order received (those after a skipped element of the same page
\* included), so its length is the number received minus the number skipped;
\* a page that was fetched never ends the call with a failure, whatever it
\* skipped; and when the loop goes on, the next page can still be fetched.
C12_ParseFailureSkipped ==
    /\ Len(all_records) = Len(Received) - Len(Skipped)
    /\ \A i \in DOMAIN Received :
          LET before == {j \in 1..i : ~Received[j].malformed}
          IN  ~Received[i].malformed =>
                  all_records[Cardinality(before)].device_id = Received[i].id
    /\ LastStatusIn({200}) =>
          /\ pc \in {"call", "returned"}
          /\ exit_code = None
          /\ pc = "returned" => result = all_records
          /\ pc = "call" => ENABLED Status200

\* C12 witness: two pages fetched, the second element of each skipped, the
\* third of each appended, and the call returned the four records kept
C12_Witness ==
    /\ pc = "returned"
    /\ fetched = <<0, 500>>
    /\ Len(Received) = 2 * ShortLen
    /\ Len(Skipped) = 2
    /\ Len(result) = 2 * ShortLen - 2
    /\ result[2] = [device_id |-> 3]
    /\ result[ShortLen + 1] = [device_id |-> 503]

\* C13: when the first request of the call is answered, at the first attempt,
\* by a page with no resources and a total of 0 or no total at all, the call
\* returns the empty list after this one fetch: nothing was retried, no
\* fatal code is set, and nothing more can happen.
C13_Step ==
    \A has_total \in BOOLEAN, total \in Totals :
        (/\ offset = 0
         /\ attempts = 0
         /\ has_total => total = 0
         /\ PageFetched("empty", has_total, total)) =>
            /\ pc' = "returned"
            /\ result' = <<>>
            /\ fetched' = <<0>>
            /\ attempts' = 1
            /\ retries' = 0
            /\ sleeps' = <<>>
            /\ exit_code' = None
            /\ total_records' = 0

C13_EmptyResult == [][C13_Step]_vars

\* C13 witness: the call returned the empty list after one fetch of an empty
\* page, at the first attempt
C13_Witness ==
    /\ pc = "returned"
    /\ result = <<>>
    /\ fetched = <<0>>
    /\ pages = <<[total |-> 0, kind |-> "empty"]>>
    /\ attempts = 1
    /\ sleeps = <<>>
    /\ exit_code = None
    /\ ~ENABLED Next

\* C14 as stated: a total reported by any page fetched so far binds the
\* termination: when the call has returned, the last page fetched is at an
\* offset with offset + limit >= T for every total T a page reported.
C14_TotalAuthoritative ==
    pc = "returned" =>
        \A i \in DOMAIN pages : fetched[Len(fetched)] + limit >= pages[i].total

\* the length of the accumulator after the k-th page fetched
RecordsAfter(k) == Len(SelectSeq(ReceivedUpTo(k), LAMBDA r : ~r.malformed))

\* C15: with a progress callback, one snapshot is published for every page
\* fetched, the last one included (the call has returned only after
\* publishing the snapshot of its last page): the k-th has page number k and
\* the length of the accumulator after page k, so the page numbers are
\* 1, 2, 3, ... and the record counts never decrease. Without a callback
\* nothing is published.
C15_ProgressPublished ==
    /\ progress_callback =>
          /\ Len(progress) = Len(fetched)
          /\ \A k \in DOMAIN progress :
                /\ progress[k][1] = k
                /\ progress[k][3] = RecordsAfter(k)
          /\ \A k \in 1..(Len(progress) - 1) : progress[k][3] <= progress[k + 1][3]
          /\ pc = "returned" =>
                progress[Len(progress)] =
                    <<page_num, TotalPages(total_records), Len(result)>>
    /\ ~progress_callback => progress = <<>>

\* C15 witness: three pages fetched, the last one empty, three snapshots
\* published and the call returned
C15_Witness ==
    /\ progress_callback
    /\ pc = "returned"
    /\ Len(fetched) = 3
    /\ Len(progress) = 3
    /\ progress[1] = <<1, 3, ShortLen - 1>>
    /\ progress[2] = <<2, 3, 2 * ShortLen - 2>>
    /\ progress[3] = <<3, 3, 2 * ShortLen - 2>>

-----------------------------------------------------------------------------
(* The progress reporter *)

\* what a line would show of each triple the fields ever held together: the
\* triple of __init__ and the triples passed to update
ShownSnapshots ==
    {Shown(0, <<>>, 0)} \cup {Shown(a[1], <<a[2]>>, a[3]) : a \in passed}

\* what the last line shows
LastShown ==
    [page |-> last_line.page, total |-> last_line.total, records |-> last_line.records]

\* C16 as stated: every line printed shows a triple that the fields held
\* together: the initial one or one passed to a single call of update.
C16_NoTornSnapshot ==
    printed > 0 => LastShown \in ShownSnapshots

\* the background threads whose _run has not returned
Running == {k \in DOMAIN threads : threads[k].pc # "done"}

\* C17 as stated: at most one background thread of the indicator is running
\* at any time.
C17_SingleReporter ==
    Cardinality(Running) <= 1

\* C18: start() on an indicator that is started returns at once: no thread is
\* created, the threads are where they were (the quiet period of the one
\* waiting runs on to the same deadline), the stop flag and the other fields
\* are untouched.
C18_Step ==
    (_started /\ start) =>
        /\ Len(threads') = Len(threads)
        /\ UNCHANGED <<threads, _stop_event, _started, _thread, started_time,
                       _last_update_time, main_pc, now>>
        /\ UNCHANGED <<current_page, total_pages, record_count, last_line, printed>>

C18_StartIdempotent == [][C18_Step]_vars

\* C18 witness: start() was called on a started indicator some seconds into
\* the quiet period, and the one thread is still waiting for second 10
C18_Witness ==
    /\ last_call = "start: already started"
    /\ _started
    /\ ~_stop_event
    /\ now = 4
    /\ started_time = 0
    /\ threads = <<[pc |-> "waiting", deadline |-> 10, woken |-> FALSE,
                    total_str |-> <<>>, page |-> 0]>>

\* the state of the indicator between the calls of stop() and start()
Idle == ~_started /\ main_pc = "idle"

\* C19: stop() on an indicator that is not started changes nothing (so a
\* second stop() after a first does nothing); stop() on a started one sets the
\* stop flag and joins the thread for one second: while it waits the clock
\* never passes the second after the call, at that second or once the thread
\* has ended it can return, and when it returns the indicator is not started,
\* whether or not the thread has ended.
C19_Step ==
    /\ (~_started /\ stop) =>
          /\ UNCHANGED <<threads, _stop_event, _started, _thread, started_time,
                         _last_update_time, main_pc, join_deadline, now>>
          /\ UNCHANGED <<current_page, total_pages, record_count, last_line, printed>>
    /\ (_started /\ stop) =>
          /\ _stop_event'
          /\ main_pc' = "join"
          /\ join_deadline' = now + 1
    /\ main_pc = "join" =>
          /\ now' <= join_deadline
          /\ main_pc' = "idle" => ~_started'
          /\ (now = join_deadline \/ threads[_thread].pc = "done") => ENABLED stop_join

C19_StopBounded == [][C19_Step]_vars

\* C19 witness: stop() has returned when its join timed out, a second after
\* the call, the thread being still inside _print_progress; the indicator is
\* idle
C19_Witness ==
    /\ last_call = "stop"
    /\ Idle
    /\ _stop_event
    /\ now = 11
    /\ threads[_thread].pc = "count"

\* the indicator is started and its thread has not finished its first wait
Waiting == _started /\ threads[_thread].pc \in {"spawned", "waiting"}

\* C20 as stated: no line is printed while the indicator is idle or waiting,
\* and none before the quiet period has passed since start(): a line
\* printed since the last start() was printed delay_seconds or more after it.
C20_QuietPeriod ==
    /\ Waiting => printed = 0
    /\ printed > 0 => last_line.since >= delay_seconds

\* C21 as stated: update() never waits for the background thread: each of its
\* three assignments can be made whatever the threads are doing; and a line
\* printed when no update() is under way shows the triple of the most recent
\* update() completed (the triple of __init__ before any), which is what the
\* fields hold then.
C21_Step ==
    /\ main_pc = "idle" => ENABLED Update
    /\ main_pc = "update_total" => ENABLED update_total
    /\ main_pc = "update_count" => ENABLED update_count
    /\ (main_pc = "idle" /\ printed' = printed + 1) =>
          /\ <<current_page, total_pages, record_count>> \in
                 {<<0, <<>>, 0>>, <<args[1], <<args[2]>>, args[3]>>}
          /\ [page |-> last_line'.page, total |-> last_line'.total,
              records |-> last_line'.records]
                 = Shown(current_page, total_pages, record_count)

C21_LatestSnapshot == [][C21_Step]_vars

\* the thread can take its next step as far as its own state goes: it is not
\* blocked in a wait of the stop event that is neither over nor interrupted
ThreadReady(k) ==
    CASE threads[k].pc \in {"waiting", "cadence"} ->
             threads[k].woken \/ now >= threads[k].deadline
      [] threads[k].pc = "done" -> FALSE
      [] OTHER -> TRUE

\* the next step of thread k
thread_step(k) ==
    \/ run_enter(k)
    \/ run_quiet(k)
    \/ run_loop(k)
    \/ print_throttle(k)
    \/ print_total(k)
    \/ print_page(k)
    \/ print_line(k)
    \/ run_cadence(k)

\* C22: while the primary thread is inside a backoff sleep, or inside the
\* call to the remote service, the clock runs on and every background thread
\* that is ready as far as its own state goes can take its step: through the
\* quiet period, into the loop, through the print and round the cadence wait.
C22_ReporterNotStalled ==
    pc \in {"sleep", "call"} =>
        /\ now < MaxTime => ENABLED Tick
        /\ \A k \in DOMAIN threads : ThreadReady(k) => ENABLED thread_step(k)

\* C22 witness: the primary thread is in the sleep after the first 429, the
\* quiet period has run out meanwhile and the thread is about to print
C22_Witness ==
    /\ pc = "sleep"
    /\ attempts = 1
    /\ delay = 1
    /\ now = 10
    /\ Len(threads) = 1
    /\ threads[1].pc = "count"
    /\ ENABLED PrintLine

-----------------------------------------------------------------------------

\* the classes of fatal failure
FatalClasses == {"authentication", "rate_limited", "server", "transport", "rejected"}

\* the class of the failure that ended the call, read from its last outcome
FatalClass ==
    CASE LastStatusIn({401}) -> "authentication"
      [] LastStatusIn({429}) -> "rate_limited"
      [] LastStatusIn({502, 503, 504}) -> "server"
      [] LastIsTransportFailure -> "transport"
      [] OTHER -> "rejected"

\* the code _query_with_retry raises SystemExit with, by class of failure
\* (lines 160, 165, 175, 190, 183)
ClassCode ==
    [c \in FatalClasses |->
        CASE c = "authentication" -> AUTH_ERROR
          [] c = "transport" -> NETWORK_ERROR
          [] OTHER -> API_ERROR]

\* C27 as stated: the signal a fatal failure surfaces differs from the signal
\* of every other class of fatal failure.
C27_TaxonomyDistinct ==
    pc = "exited" =>
        /\ exit_code = ClassCode[FatalClass]
        /\ \A c \in FatalClasses \ {FatalClass} : ClassCode[c] # exit_code

\* C30: the retry count belongs to one page. Before the first attempt of a
\* page it is 0 and nothing was slept, whatever the pages before used; the
\* first retry of a page waits 1; a page never uses more than 5 retries, and
\* a call ended by a retryable failure used the full budget of its own page:
\* 6 attempts and the sleeps 1, 2, 4, 8, 16.
C30_RetryScopedToPage ==
    /\ retries \in 0..5
    /\ retries = Len(sleeps)
    /\ (pc = "call" /\ attempts = 0) => retries = 0
    /\ (pc = "sleep" /\ attempts = 1) => delay = 1
    /\ (pc = "exited" /\ (LastStatusIn(RetryableStatuses) \/ LastIsTransportFailure)) =>
          /\ attempts = 6
          /\ sleeps = <<1, 2, 4, 8, 16>>

\* C30 witness: the third page is about to be requested for the first time
\* with no retry used, the page before it having used all 5 (its last delay,
\* 16, is still in `delay`)
C30_Witness ==
    /\ pc = "call"
    /\ page_num = 3
    /\ attempts = 0
    /\ retries = 0
    /\ delay = 16

-----------------------------------------------------------------------------
(* The filter *)

\* the clauses of a fragment: what stands between its "+" lexemes
RECURSIVE Split(_)
Split(f) ==
    IF \E i \in DOMAIN f : f[i] = "+"
    THEN LET i == CHOOSE k \in DOMAIN f : f[k] = "+" /\ \A j \in 1..(k - 1) : f[j] # "+"
         IN  <<SubSeq(f, 1, i - 1)>> \o Split(SubSeq(f, i + 1, Len(f)))
    ELSE <<f>>

\* the field each clause of a fragment tests: its first lexeme
Fields(f) == [i \in DOMAIN Split(f) |-> IF Split(f)[i] = <<>> THEN "" ELSE Split(f)[i][1]]

\* the severities of a list, each in quotes, with commas between them
RECURSIVE Quoted(_)
Quoted(l) ==
    IF Len(l) = 1 THEN <<"'", l[1], "'">>
    ELSE <<"'", l[1], "'", ",">> \o Quoted(Tail(l))

\* the bad arguments: an empty severities list or a negative min_days_open
BadArgs(a) == a.severities = <<>> \/ a.min_days_open < 0

\* C28: every FilterCriteria that is constructed has a non-empty severities
\* list and a min_days_open >= 0; constructing one with an empty list or a
\* negative min_days_open raises, and there is no object afterwards
C28_CriteriaValid ==
    /\ criteria # <<>> =>
          /\ criteria[1].severities # <<>>
          /\ criteria[1].min_days_open >= 0
    /\ BadArgs(given) =>
          /\ criteria = <<>>
          /\ raised = "ValueError" \/ ENABLED Construct

\* a constructor call with a negative min_days_open, and a good severities
\* list, has raised
C28_Witness ==
    /\ raised = "ValueError"
    /\ criteria = <<>>
    /\ given.min_days_open < 0
    /\ given.severities # <<>>

\* C23: for every valid FilterCriteria, what to_fql returns contains the
\* severity clause, a membership test over all the requested severities in
\* their order, and the platform_name clause of the device type: 'Workstation'
\* for CLIENT, 'Server' for SERVER, and no platform_name at all for BOTH
C23_SeverityAndDeviceClause ==
    fql # <<>> =>
        LET c == criteria[1]
            f == fql[1]
        IN  /\ Contains(<<"cve.severity", ":", "[">> \o Quoted(c.severities) \o <<"]">>, f)
            /\ c.device_type = "CLIENT" <=>
                   Contains(<<"platform_name", ":*", "'", "Workstation", "'">>, f)
            /\ c.device_type = "SERVER" <=>
                   Contains(<<"platform_name", ":*", "'", "Server", "'">>, f)
            /\ c.device_type = "BOTH" <=> ~Contains(<<"platform_name">>, f)

\* to_fql has been called on criteria for BOTH with two severities
C23_Witness ==
    /\ fql # <<>>
    /\ criteria[1].device_type = "BOTH"
    /\ Len(criteria[1].severities) = 2

\* the fields of the clauses that apply to a criteria, in the fixed order
ApplicableFields(c) ==
    SelectSeq(<<"platform_name", "cve.severity", "host.ad_domain", "host.hostname">>,
              LAMBDA field :
                  CASE field = "platform_name"  -> c.device_type # "BOTH"
                    [] field = "cve.severity"   -> c.severities # <<>>
                    [] field = "host.ad_domain" -> c.ad_domain # <<>> /\ c.ad_domain # << <<>> >>
                    [] field = "host.hostname"  -> c.hostname # <<>> /\ c.hostname # << <<>> >>)

\* C24: the clauses of the fragment, split at "+", are those that apply, in
\* the order device class, severity, domain, hostname: the domain clause is
\* there iff ad_domain is set and not empty, the hostname clause iff hostname
\* is; the domain and hostname clauses carry the value in quotes; the same
\* criteria give the same fragment, and the criteria object is as constructed
C24_ClauseOrder ==
    fql # <<>> =>
        LET c == criteria[1]
            f == fql[1]
        IN  /\ Fields(f) = ApplicableFields(c)
            /\ \A i \in DOMAIN Split(f) :
                  /\ Fields(f)[i] = "host.ad_domain" =>
                        Split(f)[i] = <<"host.ad_domain", ":", "'">> \o c.ad_domain[1] \o <<"'">>
                  /\ Fields(f)[i] = "host.hostname" =>
                        Split(f)[i] = <<"host.hostname", ":", "'">> \o c.hostname[1] \o <<"'">>
            /\ f = to_fql(c)
            /\ criteria = <<given>>

\* to_fql has been called on criteria with all four clauses
C24_Witness ==
    /\ fql # <<>>
    /\ Fields(fql[1]) = <<"platform_name", "cve.severity", "host.ad_domain", "host.hostname">>

\* the fragment is built, and the minimum age clause is right: it is not in
\* what to_fql returned; with min_days_open > 0 the filter is the to_fql
\* fragment, "+", and the created_timestamp clause with the cutoff date; with
\* min_days_open = 0 the filter is the to_fql fragment
MinimumAgeClauseLast ==
    pc # "new" =>
        LET c == criteria[1]
        IN  /\ fql # <<>>
            /\ ~Contains(<<"created_timestamp">>, fql[1])
            /\ IF c.min_days_open > 0
               THEN /\ Split(fql_filter) =
                         Split(fql[1]) \o << <<"created_timestamp", ":<", "'">>
                                             \o str(today - c.min_days_open) \o <<"'">> >>
                    /\ SubSeq(fql_filter, 1, Len(fql[1]) + 1) = fql[1] \o <<"+">>
               ELSE fql_filter = fql[1]

\* every client call made so far was given the filter built before the loop
FilterSent == last.kind # "none" => sent_filter = fql_filter

\* once built, the filter does not change
FilterKept == pc # "new" => fql_filter' = fql_filter /\ fql' = fql

\* C29: the minimum age clause is added by _build_fql_filter, not by to_fql,
\* iff min_days_open > 0, as the last clause, joined with "+"; and the filter
\* is built once before the first fetch and every page is fetched with it
C29_MinimumAgeClause ==
    /\ [](MinimumAgeClauseLast /\ FilterSent)
    /\ [][FilterKept]_vars

\* a second page was fetched with a filter that has a minimum age clause
C29_Witness ==
    /\ Len(fetched) >= 2
    /\ criteria[1].min_days_open > 0
    /\ sent_filter = fql_filter
    /\ Fields(sent_filter)[Len(Fields(sent_filter))] = "created_timestamp"

-----------------------------------------------------------------------------
(* The parser *)

\* the record appended last
LastRecord == all_records[Len(all_records)]

\* the loop has handled an element with none of the optional fields
BareElementHandled == element.index > 0 /\ DOMAIN element.resource = {}

\* C25: an element missing all optional fields is no parse failure: the loop
\* appends a record for it, with CVE identifier "UNKNOWN", severity MEDIUM,
\* age 0 and the device type of the criteria
C25_DefaultsParsed ==
    BareElementHandled =>
        /\ ~element.raised
        /\ all_records # <<>>
        /\ LastRecord.vulnerability.cve_id = UNKNOWN
        /\ LastRecord.vulnerability.severity = "MEDIUM"
        /\ LastRecord.vulnerability.days_open = 0
        /\ LastRecord.device.device_type = criteria[1].device_type

\* the platform name of the element handled last, as _parse_resource reads it
ElementPlatform == Get(Get(element.resource, "host", <<>>), "platform_name", Unknown)

\* C26: the record of an element whose platform name contains "Workstation"
\* or "Desktop" has device type CLIENT, also when the name contains "Server";
\* otherwise, with "Server" in the name, SERVER; otherwise the device type of
\* the criteria of the query, BOTH included
C26_DeviceTypeInferred ==
    (element.index > 0 /\ ~element.raised) =>
        /\ all_records # <<>>
        /\ (Contains(Workstation, ElementPlatform) \/ Contains(Desktop, ElementPlatform)) =>
               LastRecord.device.device_type = "CLIENT"
        /\ (/\ ~Contains(Workstation, ElementPlatform)
            /\ ~Contains(Desktop, ElementPlatform)
            /\ Contains(Server, ElementPlatform)) =>
               LastRecord.device.device_type = "SERVER"
        /\ (/\ ~Contains(Workstation, ElementPlatform)
            /\ ~Contains(Desktop, ElementPlatform)
            /\ ~Contains(Server, ElementPlatform)) =>
               LastRecord.device.device_type = criteria[1].device_type

\* a record for an element of a "Server Desktop" platform, fetched with
\* criteria for SERVER, has device type CLIENT
C26_Witness ==
    /\ element.index > 0
    /\ ~element.raised
    /\ Contains(Server, ElementPlatform)
    /\ Contains(Desktop, ElementPlatform)
    /\ criteria[1].device_type = "SERVER"
    /\ LastRecord.device.device_type = "CLIENT"

-----------------------------------------------------------------------------
(* The request across retries *)

\* C31: every client call passes the filter built before the loop, limit 500
\* and the offset of the page; an attempt after the first of a page passes
\* what the attempt before it passed; and offset, page number and accumulator
\* change only in a step whose call was answered with status 200
C31_Step ==
    /\ pc = "call" =>
          /\ last_request' = [limit |-> 500, offset |-> offset]
          /\ sent_filter' = fql_filter
    /\ (pc = "call" /\ attempts >= 1) =>
          /\ last_request' = last_request
          /\ sent_filter' = sent_filter
    /\ (offset' # offset \/ page_num' # page_num \/ all_records' # all_records) =>
          /\ pc = "call"
          /\ last'.kind = "response"
          /\ last'.status_code = 200
    /\ fql_filter' = fql_filter

C31_RequestUnchanged == [][C31_Step]_vars

\* the second page was asked for a third time, after two failures, with the
\* request of its first attempt
C31_Witness ==
    /\ attempts >= 3
    /\ last.kind # "none"
    /\ offset = 500
    /\ page_num = 2
    /\ last_request = [limit |-> 500, offset |-> 500]
    /\ sent_filter = fql_filter

-----------------------------------------------------------------------------
(* The total of pages, published and shown *)

\* the total_pages the callback was given last, as update stores it
PublishedTotal == <<progress[Len(progress)][2]>>

\* the page fetched in this step is published with total_pages =
\* ceil(total / limit) when the response has a total, and None when it has none
PublishedNone ==
    \A kind \in SmallKinds, has_total \in BOOLEAN, total \in Totals :
        (progress' # progress /\ PageFetched(kind, has_total, total)) =>
            PublishedTotal' = IF has_total THEN <<Ceil(total, limit)>> ELSE <<>>

\* a thread that builds total_str from a total_pages of None builds "?", and
\* the line it prints shows the total_str it built
UnknownShown ==
    \A k \in DOMAIN threads :
        /\ (threads' # threads /\ print_total(k) /\ total_pages = <<>>) =>
               threads'[k].total_str = <<"?">>
        /\ (threads' # threads /\ print_line(k)) => last_line'.total = threads[k].total_str

\* C32 as stated: the total_pages published after a page is
\* ceil(total / limit) when the total is known and None when it is not, and
\* the reporter shows an unknown total as "?"
C32_Original == [][PublishedNone /\ UnknownShown]_vars

\* the page fetched in this step is published with total_pages =
\* ceil(total / limit) when the response has a total, and 0 when it has none
PublishedZero ==
    \A kind \in SmallKinds, has_total \in BOOLEAN, total \in Totals :
        (progress' # progress /\ PageFetched(kind, has_total, total)) =>
            PublishedTotal' = <<IF has_total THEN Ceil(total, limit) ELSE 0>>

\* a thread builds "?" from a total_pages of None or 0 and the digits of the
\* number from any other, and the line it prints shows the total_str it built
ZeroShownUnknown ==
    \A k \in DOMAIN threads :
        /\ (threads' # threads /\ print_total(k)) =>
               threads'[k].total_str =
                   IF total_pages = <<>> \/ total_pages = <<0>>
                   THEN <<"?">>
                   ELSE str(total_pages[1])
        /\ (threads' # threads /\ print_line(k)) => last_line'.total = threads[k].total_str

\* C32 amended: the total_pages published after a page is ceil(total / limit)
\* when the response has a total and 0, not None, when it has none (or a
\* total of 0); the reporter shows a total_pages of 0, and the None it holds
\* before the first update, as "?", and any other as the number
C32_TotalPagesPublished == [][PublishedZero /\ ZeroShownUnknown]_vars

\* the first page had no total (or a total of 0), was published with
\* total_pages 0, and the line printed after it shows page 1 of "?"
C32_Witness ==
    /\ printed >= 1
    /\ last_line.page = <<"1">>
    /\ last_line.total = <<"?">>
    /\ pages # <<>>
    /\ pages[1].total = 0
    /\ progress[1][2] = 0
    /\ progress[1] \in passed
    /\ total_pages = <<0>>

-----------------------------------------------------------------------------
(* The throttle *)

\* the time the last line was printed at
LastLineTime == started_time + last_line.since

\* C33: a line is printed no sooner than one second after the line before it;
\* and a thread that comes to _print_progress less than one second after the
\* last emission time prints nothing and leaves that time as it is
C33_Step ==
    /\ (printed' = printed + 1 /\ printed >= 1) => now - LastLineTime >= 1
    /\ \A k \in DOMAIN threads :
          (/\ k \in DOMAIN threads'
           /\ threads[k].pc = "print"
           /\ threads'[k].pc # "print"
           /\ now - _last_update_time < 1) =>
              /\ printed' = printed
              /\ last_line' = last_line
              /\ _last_update_time' = _last_update_time
              /\ threads'[k].pc = "cadence"

C33_Throttle == [][C33_Step]_vars

-----------------------------------------------------------------------------
(* The cadence *)

\* the indicator is started
Started == Len(threads) = 1 /\ _started

\* the thread is in its quiet period, or past it
QuietPeriodEntered == Len(threads) = 1 /\ threads[1].pc # "spawned"

\* the thread is in a quiet period the clock reaches the end of
InQuietPeriod ==
    /\ Len(threads) = 1
    /\ threads[1].pc = "waiting"
    /\ threads[1].deadline <= MaxTime + 1

\* the thread waits between two lines, for a wait the clock reaches the end of
InCadenceWait ==
    /\ Len(threads) = 1
    /\ threads[1].pc = "cadence"
    /\ threads[1].deadline <= MaxTime + 1

\* the thread is at _print_progress, or has just printed
AtEmission == Len(threads) = 1 /\ threads[1].pc \in {"print", "total", "page", "count"}

\* no line before the quiet period is over, and no attempt sooner than two
\* seconds after the line before it
C34_NotSooner ==
    /\ printed >= 1 => last_line.since >= delay_seconds
    /\ (AtEmission /\ printed >= 1) => now - LastLineTime >= cadence

\* C34: started and never stopped, the indicator prints a first line once the
\* quiet period is over, and after every line the thread comes back to
\* _print_progress when two more seconds have passed, never sooner
C34_Cadence ==
    /\ Started ~> QuietPeriodEntered
    /\ InQuietPeriod ~> (printed >= 1)
    /\ InCadenceWait ~> AtEmission
    /\ []C34_NotSooner

\* a second line was printed, two seconds after the first
C34_Witness ==
    /\ printed = 2
    /\ ~_stop_event
    /\ last_line.since = delay_seconds + cadence

-----------------------------------------------------------------------------
(* Reporter and loop *)

\* a step of the reporter: of start, of stop, or of a background thread
ReporterStep ==
    \/ threads' # threads
    \/ _started' # _started
    \/ _stop_event' # _stop_event
    \/ _thread' # _thread
    \/ last_line' # last_line
    \/ _last_update_time' # _last_update_time

\* a step of update: one of its three assignments
UpdateStep ==
    \/ main_pc = "idle" /\ main_pc' = "update_total"
    \/ main_pc = "update_total" /\ main_pc' = "update_count"
    \/ main_pc = "update_count" /\ main_pc' = "idle"

\* C35: a step of start, of stop or of a background thread leaves the state
\* of the retrieval as it is (offset, page number, accumulator, retries,
\* position, result), and current_page, total_pages and record_count change
\* in the steps of update only, never in a step of a background thread
C35_Step ==
    /\ ReporterStep =>
          UNCHANGED <<offset, page_num, all_records, retries, total_records, pc,
                      result, exit_code, fql_filter>>
    /\ <<current_page, total_pages, record_count>>' #
           <<current_page, total_pages, record_count>> =>
          /\ UpdateStep
          /\ threads' = threads

C35_SnapshotOnlyCoupling == [][C35_Step]_vars

\* the indicator was stopped after a retrieval of two pages, each published,
\* with a line printed in between, and the retrieval has its result
C35_Witness ==
    /\ last_call = "stop"
    /\ main_pc = "idle"
    /\ ~_started
    /\ printed >= 1
    /\ pc = "returned"
    /\ page_num = 2
    /\ current_page = 2
    /\ record_count = Len(result)

-----------------------------------------------------------------------------
(* One retry budget for every kind of retryable failure *)

AllFailureKinds == {"rate_limit", "server_error", "network"}

\* C36: whatever the kinds of the retryable failures of a page and their
\* order, the page sees at most 6 attempts and at most 5 sleeps and its retry
\* count never exceeds 5; every failed attempt, of whatever kind, uses one
\* retry of the same count, and a retryable failure on the sixth attempt ends
\* the call.
C36_SharedRetryBudget ==
    /\ attempts <= 6
    /\ Len(sleeps) <= 5
    /\ retries <= 5
    /\ failures \subseteq AllFailureKinds
    /\ pc = "sleep" => retries = attempts - 1 /\ failures # {}
    /\ pc = "call" => retries = attempts
    /\ (attempts = 6 /\ (LastStatusIn(RetryableStatuses) \/ LastIsTransportFailure)) =>
          pc = "exited"

\* C36 witness: a page whose six attempts failed in all three ways has ended
\* the call after 5 sleeps
C36_Witness ==
    /\ pc = "exited"
    /\ failures = AllFailureKinds
    /\ attempts = 6
    /\ Len(sleeps) = 5
    /\ retries = 5

\* C37: when the sixth attempt of a page fails in a retryable way, the exit
\* code is that of this last failure alone, whatever kinds failed before it:
\* NETWORK_ERROR after a timeout or connection failure, API_ERROR after a 429
\* or a 502, 503, 504.
C37_LastFailureClassifies ==
    (pc = "exited" /\ attempts = 6) =>
        /\ LastIsTransportFailure => exit_code = NETWORK_ERROR
        /\ LastStatusIn(RetryableStatuses) => exit_code = API_ERROR

\* C37 witness: the budget was used up by a 429 after transport failures and
\* a server error, and the call ended with API_ERROR
C37_Witness ==
    /\ pc = "exited"
    /\ attempts = 6
    /\ failures = AllFailureKinds
    /\ last.status_code = 429
    /\ exit_code = API_ERROR

\* the other order: a transport failure last, after a 429 and a server error
C37_WitnessNetwork ==
    /\ pc = "exited"
    /\ attempts = 6
    /\ failures = AllFailureKinds
    /\ LastIsTransportFailure
    /\ exit_code = NETWORK_ERROR

-----------------------------------------------------------------------------
(* What ends the loop *)

\* every page fetched so far came without resources
AllEmpty == \A i \in DOMAIN pages : pages[i].kind = "empty"

\* a page is fetched: the attempt is answered with status 200
C38_Step ==
    (pc = "call" /\ last'.kind = "response" /\ last'.status_code = 200) =>
        /\ (offset + limit < total_records') =>
              pc' = "call" /\ offset' = offset + limit /\ page_num' = page_num + 1
        /\ (offset + limit >= total_records') =>
              pc' = "returned" /\ offset' = offset
        /\ total_records' = pages'[Len(pages')].total

\* the pages fetched so far all reported the total T: as long as the loop
\* runs fewer than max(1, ceil(T / limit)) were fetched, and when it has
\* ended exactly that many
C38_Count ==
    (pages # <<>> /\ AllReport(total_records)) =>
        /\ pc = "returned" => Len(fetched) = Max(1, Ceil(total_records, limit))
        /\ pc \in {"call", "sleep", "exited"} =>
              Len(fetched) < Max(1, Ceil(total_records, limit))

\* C38: whether the loop goes on after a page is decided by the total the
\* page reports and the offset, whatever resources the page carries (an empty
\* page below the total does not end it), and with one total T reported by
\* every page the loop ends after exactly max(1, ceil(T / limit)) pages.
C38_TotalDecidesContinuation == [][C38_Step]_vars /\ []C38_Count

\* C38 witness: three pages without resources, each reporting 3 * limit: the
\* loop went on after the first two and returned the empty list after the third
C38_Witness ==
    /\ pc = "returned"
    /\ AllEmpty
    /\ AllReport(3 * limit)
    /\ fetched = <<0, limit, 2 * limit>>
    /\ result = <<>>

-----------------------------------------------------------------------------
(* After stop *)

\* the last call that got past its first test was a stop(), and it has returned
StopReturned == main_pc = "idle" /\ ~_started /\ threads # <<>>

\* C39 as stated: once stop() has returned, and as long as start() is not
\* called again, no line is printed.
C39_Step == (StopReturned /\ ~_started') => UNCHANGED <<printed, last_line>>

C39_SilentAfterStop == [][C39_Step]_vars

\* every background thread has left _run
AllExited == \A k \in DOMAIN threads : threads[k].pc = "done"

\* the lines a thread can still print while the signal stays set: one when
\* it is inside _print_progress, none anywhere else
LinesLeft(t) == IF t.pc \in {"print", "total", "page", "count"} THEN 1 ELSE 0

\* the thread k prints a line in this step
Prints(k) == threads'[k] # threads[k] /\ printed' = printed + 1

\* with the signal set and not cleared, no thread gets into _print_progress
\* again, and a thread that prints was inside it and is not afterwards
C40_Step ==
    (_stop_event /\ _stop_event') =>
        \A k \in DOMAIN threads :
            /\ LinesLeft(threads'[k]) <= LinesLeft(threads[k])
            /\ Prints(k) => LinesLeft(threads[k]) = 1 /\ LinesLeft(threads'[k]) = 0

\* a thread that waits while the signal is set has been woken
C40_Woken ==
    \A k \in DOMAIN threads :
        (_stop_event /\ threads[k].pc \in {"waiting", "cadence"}) => threads[k].woken

\* C40: once stop() has set the signal, every background thread has left
\* _run in the end unless start() clears the signal again, and until then a
\* thread prints at most one more line: the one it was about to print when the
\* signal was set, none when it was waiting (quiet period or cadence).
C40_ExitsAfterSignal ==
    /\ _stop_event ~> (AllExited \/ ~_stop_event)
    /\ [][C40_Step]_vars
    /\ []C40_Woken

\* C40 witness: stop() is still in its join, the thread has left _run, and its
\* last line was printed a second after the signal was set
C40_Witness ==
    /\ main_pc = "join"
    /\ _stop_event
    /\ AllExited
    /\ printed >= 1
    /\ started_time + last_line.since > join_deadline - join_timeout

====
